---- MODULE Spec2Model ----
(***************************************************************************)
(* Model of the macro upload workflow (upload_keycommands,                 *)
(* select_macros_upload, save_selected_macros) and of the merge download   *)
(* workflow (download_selected_macros, upload_user_file_for_download) of   *)
(* macros/views.py.                                                        *)
(*                                                                         *)
(* An XML element (xml.etree.ElementTree.Element) is a record              *)
(*   [tag, name, value, type, kids]                                        *)
(* where name, value and type are the attributes of that name (NoAttr when *)
(* the attribute is absent) and kids is the sequence of child elements.    *)
(* Text, tails, comments and other attributes play no part in the code     *)
(* modelled here and are left out.                                         *)
(***************************************************************************)
EXTENDS Integers, Sequences, FiniteSets, TLC

\* ------------------------------------------------------------------ bounds
MaxRootKids == 2      \* children of the root of an uploaded user document
MaxMacros == 2        \* macros stored in the public file of the merge workflow
MaxDownloads == 1     \* a download or a page view is counted while fewer of them
                      \* are counted in the database
MaxParsed == 2        \* macros in the parser's output for one upload
MaxFiles == 1         \* an upload is accepted while fewer files are stored
MaxCommands == 4      \* commands of the macro whose description is prepared
MaxTokens == 2        \* a signup is accepted while fewer tokens were generated

\* ------------------------------------------------------- element model
NoAttr == "<absent>"

El(tag, name, value, type, kids) ==
    [tag |-> tag, name |-> name, value |-> value, type |-> type, kids |-> kids]

\* <string name=n value=v/>
Str(n, v) == El("string", n, v, NoAttr, <<>>)

\* <list name=n type="list"> kids </list>
List(n, kids) == El("list", n, NoAttr, "list", kids)

\* <item> kids </item>
Item(kids) == El("item", NoAttr, NoAttr, NoAttr, kids)

NoElem == El("", NoAttr, NoAttr, NoAttr, <<>>)

\* Element.find('<tag>[@name="<name>"]'): position of the first direct
\* child with that tag and that name attribute, 0 for None.
FindNamed(kids, tag, name) ==
    LET hits == {i \in 1..Len(kids) : kids[i].tag = tag /\ kids[i].name = name}
    IN  IF hits = {} THEN 0 ELSE CHOOSE i \in hits : \A j \in hits : i <= j

\* Variant of SubElement: the new element becomes the first child.
SubElementFirst(parent, child) == [parent EXCEPT !.kids = <<child>> \o @]

\* ET.SubElement(parent, ...): the new element becomes the last child.
SubElement(parent, child) == [parent EXCEPT !.kids = Append(@, child)]

\* ----------------------------------------------------- stored snippets
\* A stored snippet text: empty (present = FALSE), a text ET.fromstring
\* rejects with ParseError (parses = FALSE), or the serialisation of elem.
NoSnippet == [present |-> FALSE, parses |-> FALSE, elem |-> NoElem]
BadSnippet == [present |-> TRUE, parses |-> FALSE, elem |-> NoElem]
Snip(e) == [present |-> TRUE, parses |-> TRUE, elem |-> e]

\* The definition item of a macro as it stands in a "Macros" list.
DefItem(n) == Item(<<Str("Name", n), List("Commands", <<Item(<<Str("Name", "Mute")>>)>>)>>)

\* The reference item of a macro as it stands in Categories/Macro/Commands.
RefItem(n) == Item(<<Str("Name", n), Str("Key", "Ctrl+M")>>)

\* ------------------------------------------------------------ database
Users == {"u1", "u2"}

\* request.user of a client that is not logged in.
AnonymousUser == "<anonymous>"

\* One row of the KeyCommandsFile table as save_selected_macros writes it.
FileRow(owner, name, description, private) ==
    [user |-> owner, name |-> name, description |-> description,
     is_private |-> private, download_count |-> 0]

\* One row of the Macro table as save_selected_macros writes it; votes
\* holds the MacroVote rows of the macro as [user, rating] records.
MacroRow(file, name, category, description, key_binding, commands, xml, ref, private) ==
    [keycommands_file |-> file, name |-> name, category |-> category,
     description |-> description, key_binding |-> key_binding,
     commands |-> commands, xml_snippet |-> xml, reference_snippet |-> ref,
     is_private |-> private, download_count |-> 0, view_count |-> 0, votes |-> {}]

\* The place of a deleted row: ids are not used again.
DeletedFile == FileRow("<deleted>", "", "", FALSE)
DeletedMacro == MacroRow(0, "", "", "", "", <<>>, NoSnippet, NoSnippet, FALSE)

\* ------------------------------------------- merge: embedding the macros
\* Variant of WithMacrosList: a new list is created whether or not the
\* root has one.
WithMacrosListAlways(user_root) == SubElement(user_root, List("Macros", <<>>))

\* macros_list lookup and creation.
WithMacrosList(user_root) ==
    IF FindNamed(user_root.kids, "list", "Macros") = 0
    THEN SubElement(user_root, List("Macros", <<>>))
    ELSE user_root

\* An item of the Categories list is the "Macro" category when its first
\* string child named "Name" has the value "Macro".
IsMacroCategory(item) ==
    LET s == FindNamed(item.kids, "string", "Name")
    IN  s # 0 /\ item.kids[s].value = "Macro"

\* The loop over categories_list.findall('item') with its break.
FindMacroCategory(kids) ==
    LET hits == {i \in 1..Len(kids) : kids[i].tag = "item" /\ IsMacroCategory(kids[i])}
    IN  IF hits = {} THEN 0 ELSE CHOOSE i \in hits : \A j \in hits : i <= j

\* macro_category_item: found or created as the last item of Categories.
WithMacroCategory(categories_list) ==
    IF FindMacroCategory(categories_list.kids) = 0
    THEN SubElement(categories_list, Item(<<Str("Name", "Macro")>>))
    ELSE categories_list

\* commands_list: found or created as the last child of the Macro item.
WithCommandsList(macro_category_item) ==
    IF FindNamed(macro_category_item.kids, "list", "Commands") = 0
    THEN SubElement(macro_category_item, List("Commands", <<>>))
    ELSE macro_category_item

\* What one macro adds to macros_list: its re-parsed xml_snippet; nothing
\* when the snippet is empty or raises ParseError (logged, not raised).
DefinitionElements(macro) ==
    IF macro.xml_snippet.present /\ macro.xml_snippet.parses
    THEN <<macro.xml_snippet.elem>>
    ELSE <<>>

\* Variant of ReferenceElement: the stored reference snippet is ignored.
ReferenceElementNameOnly(macro) == Item(<<Str("Name", macro.name)>>)

\* What one macro adds to commands_list: its re-parsed reference_snippet,
\* or the fallback <item><string name="Name" value=macro.name/></item>.
ReferenceElement(macro) ==
    IF macro.reference_snippet.present /\ macro.reference_snippet.parses
    THEN macro.reference_snippet.elem
    ELSE Item(<<Str("Name", macro.name)>>)

RECURSIVE Definitions(_)
Definitions(selected_macros) ==
    IF selected_macros = <<>> THEN <<>>
    ELSE DefinitionElements(Head(selected_macros)) \o Definitions(Tail(selected_macros))

References(selected_macros) ==
    [i \in 1..Len(selected_macros) |-> ReferenceElement(selected_macros[i])]

\* The Categories list after the Macro item and its Commands list were
\* located or created and the references were appended.
EmbedReferences(categories_list, selected_macros) ==
    LET cats == WithMacroCategory(categories_list)
        ii == FindMacroCategory(cats.kids)
        item == WithCommandsList(cats.kids[ii])
        li == FindNamed(item.kids, "list", "Commands")
    IN  [cats EXCEPT !.kids[ii] =
            [item EXCEPT !.kids[li].kids = @ \o References(selected_macros)]]

\* The "Embed macros" block: user_root after the in-place edits.
EmbedMacros(user_root, selected_macros) ==
    LET r1 == WithMacrosList(user_root)
        mi == FindNamed(r1.kids, "list", "Macros")
        ci == FindNamed(r1.kids, "list", "Categories")
        r2 == [r1 EXCEPT !.kids[mi].kids = @ \o Definitions(selected_macros)]
    IN  IF ci = 0 THEN r2
        ELSE [r2 EXCEPT !.kids[ci] = EmbedReferences(@, selected_macros)]

\* ---------------------------------------------------------------- state
VARIABLES
    user,                      \* request.user of the client (logged in)
    files,                     \* KeyCommandsFile table, row i has id i
    macros,                    \* Macro table, row i has id i
    downloads,                 \* MacroDownload table, in creation order
    total_uploads,             \* UserProfile.total_uploads of the client
    upload_data,               \* session['upload_data'], {} when unset
    selected_macro_indices,    \* session['selected_macro_indices'], {} when unset
    private_macro_indices,     \* session['private_macro_indices'], {} when unset
    download_selected_macros,  \* session['download_selected_macros'], {} when unset
    response,                  \* what the last request returned
    users,                     \* User table of the signups: the usernames
    verifications,             \* EmailVerification table
    outbox,                    \* the verification mails handed to the mail server
    last_token,                \* number of tokens generated so far
    signup                     \* the signup_email request being handled

db == <<files, macros, downloads>>
upload_session == <<upload_data, selected_macro_indices, private_macro_indices>>
accounts == <<users, verifications, outbox, last_token, signup>>

\* signup_email between requests. While a request is handled pc is the
\* statement reached, attempt the loop variable, e the text of the
\* exception last caught, email, user and token the local variables.
NoSignup == [pc |-> "idle", attempt |-> 0, e |-> "", email |-> "", user |-> "", token |-> 0]

\* No account was ever asked for.
InitAccounts ==
    /\ users = {}
    /\ verifications = {}
    /\ outbox = {}
    /\ last_token = 0
    /\ signup = NoSignup

\* The downloads and page views the database counts: the file downloads,
\* the MacroDownload rows and the macro page views.
RECURSIVE FileDownloads(_)
FileDownloads(rows) ==
    IF rows = <<>> THEN 0 ELSE Head(rows).download_count + FileDownloads(Tail(rows))

RECURSIVE TotalViews(_)
TotalViews(rows) ==
    IF rows = <<>> THEN 0 ELSE Head(rows).view_count + TotalViews(Tail(rows))

Counted == FileDownloads(files) + Len(downloads) + TotalViews(macros)
vars == <<user, files, macros, downloads, total_uploads, upload_data, selected_macro_indices,
          private_macro_indices, download_selected_macros, response,
          users, verifications, outbox, last_token, signup>>

\* A response: kind names the return statement taken, message the flash
\* message; a delivered attachment also carries the parsed upload
\* (user_root), the serialised tree (root) and the embedded macro ids in
\* queryset order (macro_ids); a save carries its two counters; a
\* standalone download carries the records handed to the generator
\* (macros_data); the selection page carries its macros_by_category; a
\* delivered merge carries the text sent (xml_content); a page that lists
\* macros besides its own carries their ids (context_macros).
Response(kind, message) ==
    [kind |-> kind, message |-> message, user_root |-> NoElem, root |-> NoElem,
     macro_ids |-> <<>>, created_macros |-> 0, skipped_macros |-> 0,
     macros_data |-> <<>>, macros_by_category |-> <<>>,
     xml_content |-> [prolog |-> <<>>, root |-> NoElem], context_macros |-> {}]

\* All orders in which a queryset without a modelled ordering can yield
\* the rows whose ids are in S.
Orders(S) ==
    {o \in [1..Cardinality(S) -> S] : \A i, j \in 1..Cardinality(S) : o[i] = o[j] => i = j}

\* get_object_or_404(KeyCommandsFile, id=file_id): TRUE when a row is found.
FileExists(file_id) == file_id \in 1..Len(files) /\ files[file_id] # DeletedFile

\* get_object_or_404(KeyCommandsFile, id=file_id) followed by the
\* "Check permissions" test: TRUE when the view goes on.
FileVisible(file_id) ==
    /\ FileExists(file_id)
    /\ ~(files[file_id].is_private /\ files[file_id].user # user)

\* @login_required: a client that is not logged in is sent to the login
\* page and the view is not run.
redirect_to_login ==
    /\ response' = Response("redirect:login", "")
    /\ UNCHANGED <<user, accounts, total_uploads, db, upload_session, download_selected_macros>>

\* ------------------------------------- download_selected_macros (view)
\* selected: request.POST.getlist('selected_macros') as a set of ids.
download_selected_macros_view(file_id, method, selected) ==
    IF user = AnonymousUser THEN redirect_to_login ELSE
    /\ UNCHANGED <<user, accounts, total_uploads, db, upload_session>>
    /\ IF ~FileVisible(file_id)
       THEN /\ response' = Response("404", "")
            /\ UNCHANGED download_selected_macros
       ELSE IF method = "POST"
       THEN IF selected = {}
            THEN /\ response' = Response("redirect:download_selected_macros",
                                         "Please select at least one macro.")
                 /\ UNCHANGED download_selected_macros
            ELSE /\ download_selected_macros' =
                        {[file_id |-> file_id, macro_ids |-> selected]}
                 /\ response' = Response("redirect:upload_user_file_for_download", "")
       ELSE /\ response' = Response("render:select_macros", "")
            /\ UNCHANGED download_selected_macros

\* Variant of SelectedMacroIds: the rows are filtered by id alone.
SelectedMacroIdsOfAnyFile(file_id, macro_ids) ==
    {i \in 1..Len(macros) : i \in macro_ids}

\* Macro.objects.filter(id__in=selected_macro_ids, keycommands_file=file)
SelectedMacroIds(file_id, macro_ids) ==
    {i \in 1..Len(macros) : i \in macro_ids /\ macros[i].keycommands_file = file_id}

\* The rows of the Macro table with the ids of the sequence ids.
Rows(ids) == [i \in 1..Len(ids) |-> macros[ids[i]]]

\* The MacroDownload rows and download_count updates of the loop that
\* follows the serialisation.
RecordDownloads(ids) ==
    /\ downloads' = downloads \o [i \in 1..Len(ids) |-> [macro |-> ids[i], user |-> user]]
    /\ macros' = [i \in 1..Len(macros) |->
                    IF \E k \in 1..Len(ids) : ids[k] = i
                    THEN [macros[i] EXCEPT !.download_count = @ + 1]
                    ELSE macros[i]]

\* A serialised document: the declarations that precede the root element
\* (prolog) and the root element.
\* Variant of tostring: the serialisation starts with a declaration, as
\* for an encoding other than "unicode", "utf-8" and "us-ascii".
tostring_declared(element, encoding) ==
    [prolog |-> <<"<?xml version='1.0' encoding='" \o encoding \o "'?>\n">>,
     root |-> element]

\* ET.tostring(element, encoding=encoding, method='xml'): a declaration is
\* written for an encoding other than "unicode", "utf-8" and "us-ascii".
tostring(element, encoding) ==
    [prolog |-> IF encoding \in {"unicode", "utf-8", "us-ascii"} THEN <<>>
                ELSE <<"<?xml version='1.0' encoding='" \o encoding \o "'?>\n">>,
     root |-> element]

XmlDeclaration == "<?xml version=\"1.0\" encoding=\"utf-8\"?>\n"

\* "Generate XML string": xml_content for the edited user_root.
GenerateXmlString(user_root) ==
    LET xml_str == tostring(user_root, "unicode")
    IN  [xml_str EXCEPT !.prolog = <<XmlDeclaration>> \o @]

\* Variant of upload_user_file_for_download: a rejected user file drops
\* the stored selection from the session.
upload_user_file_for_download_forgetting(file_id, method, user_file) ==
    IF user = AnonymousUser THEN redirect_to_login ELSE
    /\ UNCHANGED <<user, accounts, total_uploads, files, upload_session>>
    /\ IF ~FileVisible(file_id)
       THEN /\ response' = Response("404", "")
            /\ UNCHANGED <<macros, downloads, download_selected_macros>>
       ELSE IF \/ download_selected_macros = {}
               \/ \E d \in download_selected_macros : d.file_id # file_id
       THEN /\ response' = Response("redirect:download_selected_macros",
                                    "Please select macros first.")
            /\ UNCHANGED <<macros, downloads, download_selected_macros>>
       ELSE IF method # "POST"
       THEN /\ response' = Response("render:upload_user_file_for_download", "")
            /\ UNCHANGED <<macros, downloads, download_selected_macros>>
       ELSE IF user_file.kind # "xml"
       THEN /\ response' = Response("redirect:upload_user_file_for_download",
                    CASE user_file.kind = "missing" -> "Please upload your KeyCommands.xml file."
                      [] user_file.kind = "badname" -> "Please upload a valid XML file."
                      [] user_file.kind = "badenc" -> "Invalid file encoding."
                      [] OTHER -> "Invalid XML file")
            /\ download_selected_macros' = {}
            /\ UNCHANGED <<macros, downloads>>
       ELSE /\ Counted < MaxDownloads
            /\ \E d \in download_selected_macros :
               \E order \in Orders(SelectedMacroIds(file_id, d.macro_ids)) :
               LET user_root == EmbedMacros(user_file.root, Rows(order))
               IN  /\ response' = [Response("attachment", "Successfully embedded") EXCEPT
                                       !.user_root = user_file.root,
                                       !.root = user_root,
                                       !.xml_content = GenerateXmlString(user_root),
                                       !.macro_ids = order]
                   /\ RecordDownloads(order)
                   /\ download_selected_macros' = {}

\* ---------------------------------- upload_user_file_for_download (view)
\* user_file: [kind, root]; kind is "missing" (no user_file in
\* request.FILES), "badname" (name not *.xml), "badenc" (UnicodeDecodeError),
\* "badxml" (ET.ParseError) or "xml" with root the parsed document.
\* The selected_macros queryset yields its rows in some order.
upload_user_file_for_download(file_id, method, user_file) ==
    IF user = AnonymousUser THEN redirect_to_login ELSE
    /\ UNCHANGED <<user, accounts, total_uploads, files, upload_session>>
    /\ IF ~FileVisible(file_id)
       THEN /\ response' = Response("404", "")
            /\ UNCHANGED <<macros, downloads, download_selected_macros>>
       ELSE IF \/ download_selected_macros = {}
               \/ \E d \in download_selected_macros : d.file_id # file_id
       THEN /\ response' = Response("redirect:download_selected_macros",
                                    "Please select macros first.")
            /\ UNCHANGED <<macros, downloads, download_selected_macros>>
       ELSE IF method # "POST"
       THEN /\ response' = Response("render:upload_user_file_for_download", "")
            /\ UNCHANGED <<macros, downloads, download_selected_macros>>
       ELSE IF user_file.kind # "xml"
       THEN /\ response' = Response("redirect:upload_user_file_for_download",
                    CASE user_file.kind = "missing" -> "Please upload your KeyCommands.xml file."
                      [] user_file.kind = "badname" -> "Please upload a valid XML file."
                      [] user_file.kind = "badenc" -> "Invalid file encoding."
                      [] OTHER -> "Invalid XML file")
            /\ UNCHANGED <<macros, downloads, download_selected_macros>>
       ELSE /\ Counted < MaxDownloads
            /\ \E d \in download_selected_macros :
               \E order \in Orders(SelectedMacroIds(file_id, d.macro_ids)) :
               LET user_root == EmbedMacros(user_file.root, Rows(order))
               IN  /\ response' = [Response("attachment", "Successfully embedded") EXCEPT
                                       !.user_root = user_file.root,
                                       !.root = user_root,
                                       !.xml_content = GenerateXmlString(user_root),
                                       !.macro_ids = order]
                   /\ RecordDownloads(order)
                   /\ download_selected_macros' = {}

\* ------------------------------------------------ merge workflow: inputs
\* Sequences over S of length at most n.
SeqUpTo(S, n) == UNION {[1..k -> S] : k \in 0..n}

\* Children a user document's root is drawn from: a "Macros" list holding
\* a macro named like a stored one; "Categories" lists without "Macro"
\* item, with a "Macro" item lacking its Commands list, and with another
\* category before a complete "Macro" item; and an element that is not a
\* list, carries the name "Macros" and nests lists named "Macros" and
\* "Categories" below the root's children.
RootKidPool ==
    { List("Macros", <<DefItem("Dup")>>),
      List("Categories", <<Item(<<Str("Name", "Transport")>>)>>),
      List("Categories", <<Item(<<Str("Name", "Macro")>>)>>),
      List("Categories",
           << Item(<<Str("Name", "Transport"), List("Commands", <<RefItem("Play")>>)>>),
              Item(<<Str("Name", "Macro"), List("Commands", <<RefItem("Dup")>>)>>) >>),
      El("item", "Macros", NoAttr, NoAttr, <<List("Macros", <<>>), List("Categories", <<>>)>>) }

UserRoots ==
    {El("KeyCommands", NoAttr, NoAttr, NoAttr, kids) : kids \in SeqUpTo(RootKidPool, MaxRootKids)}

\* Uploads that are rejected before the embedding, and uploads that parse.
BadUserFiles ==
    {[kind |-> k, root |-> NoElem] : k \in {"missing", "badname", "badenc", "badxml"}}

GoodUserFiles == {[kind |-> "xml", root |-> r] : r \in UserRoots}

\* TRUE when a POST of an upload for file_id gets as far as looking at the
\* uploaded file; before that, every upload gets the same response.
ReachesParse(file_id) ==
    /\ FileVisible(file_id)
    /\ \E d \in download_selected_macros : d.file_id = file_id

\* Rows save_selected_macros can have stored for the public file 1: the
\* snippets are texts taken from the parser's output, so each may be
\* empty, unparseable or the serialisation of an item.
StoredPool ==
    << MacroRow(1, "Dup", "Macro", "", "", <<>>, Snip(DefItem("Dup")), Snip(RefItem("Dup")), FALSE),
       MacroRow(1, "Dup", "Tools", "", "", <<>>, NoSnippet, NoSnippet, FALSE),
       MacroRow(1, "Solo", "Macro", "", "", <<>>, BadSnippet, BadSnippet, FALSE) >>

\* The ways to take n rows of StoredPool (all of them when n exceeds the
\* pool), in the pool's order (ids are interchangeable: no view depends on
\* the value of an id).
StoredRows(n) ==
    LET k == IF n < Len(StoredPool) THEN n ELSE Len(StoredPool)
    IN  {[i \in 1..k |-> StoredPool[pick[i]]] :
            pick \in {p \in [1..k -> 1..Len(StoredPool)] : \A i \in 1..(k - 1) : p[i] < p[i + 1]}}

\* update_or_create keeps (keycommands_file, name, category) unique.
UniqueKeys(rows) ==
    \A i, j \in 1..Len(rows) :
        (/\ rows[i].keycommands_file = rows[j].keycommands_file
         /\ rows[i].name = rows[j].name
         /\ rows[i].category = rows[j].category) => i = j

\* The merge workflow starts from an empty session of the client u2 and a
\* database with three files: the public file 1 of u1 with MaxMacros
\* macros, the private file 2 of u2 with one macro, and the private file 3
\* of u1.
InitMerge ==
    /\ user = "u2"
    /\ files = << FileRow("u1", "f1", "", FALSE), FileRow("u2", "f2", "", TRUE),
                  FileRow("u1", "f3", "", TRUE) >>
    /\ \E rows \in StoredRows(MaxMacros) :
          /\ UniqueKeys(rows)
          /\ macros = Append(rows,
                MacroRow(2, "Dup", "Macro", "", "", <<>>,
                         Snip(DefItem("Dup")), Snip(RefItem("Dup")), FALSE))
    /\ downloads = <<>>
    /\ total_uploads = 0
    /\ upload_data = {}
    /\ selected_macro_indices = {}
    /\ private_macro_indices = {}
    /\ download_selected_macros = {}
    /\ InitAccounts
    /\ response = Response("none", "")

\* Ids a selection form can post: the ids of the stored macros, those of
\* the other file included.
PostableIds == 1..Len(macros)

\* File ids a URL can name: every stored id and one unknown id.
FileIds == 1..(Len(files) + 1)

NoUserFile == [kind |-> "missing", root |-> NoElem]

NextMerge ==
    \/ \E file_id \in FileIds, selected \in SUBSET PostableIds :
          /\ FileVisible(file_id) \/ selected = {}
          /\ download_selected_macros_view(file_id, "POST", selected)
    \/ \E file_id \in FileIds :
          download_selected_macros_view(file_id, "GET", {})
    \/ \E file_id \in FileIds :
          upload_user_file_for_download(file_id, "GET", NoUserFile)
    \/ \E file_id \in FileIds, user_file \in BadUserFiles :
          /\ ReachesParse(file_id) \/ user_file = NoUserFile
          /\ upload_user_file_for_download(file_id, "POST", user_file)
    \/ \E file_id \in FileIds, user_file \in GoodUserFiles :
          /\ ReachesParse(file_id)
          /\ upload_user_file_for_download(file_id, "POST", user_file)

SpecMerge == InitMerge /\ [][NextMerge]_vars

\* ------------------------------------------------ upload_keycommands
\* The "Flatten all macros for selection" loop: categories_data is the
\* parser's dict as a sequence of <<category_name, macros>> entries in
\* insertion order; a macro without a name is left out.
\* Variant of FlattenCategory: macros without a name are kept.
FlattenCategoryKeepAll(category_name, parsed) ==
    [i \in 1..Len(parsed) |-> [parsed[i] EXCEPT !.category = category_name]]

RECURSIVE FlattenCategory(_, _)
FlattenCategory(category_name, parsed) ==
    IF parsed = <<>> THEN <<>>
    ELSE LET macro_data == Head(parsed)
             rest == FlattenCategory(category_name, Tail(parsed))
         IN  IF macro_data.name # ""
             THEN <<[macro_data EXCEPT !.category = category_name]>> \o rest
             ELSE rest

RECURSIVE Flatten(_)
Flatten(categories_data) ==
    IF categories_data = <<>> THEN <<>>
    ELSE FlattenCategory(Head(categories_data)[1], Head(categories_data)[2])
            \o Flatten(Tail(categories_data))

\* ------------------------------------- KeyCommandsFileForm.clean_file
\* The descendants of the elements kids, in document order.
RECURSIVE Descendants(_)
Descendants(kids) ==
    IF kids = <<>> THEN <<>>
    ELSE <<Head(kids)>> \o Descendants(Head(kids).kids) \o Descendants(Tail(kids))

\* root.find(".//<tag>[@name='<name>']"): the first descendant of root, at
\* any depth, with that tag and that name attribute; NoElem for None.
FindDeep(root, tag, name) ==
    LET all == Descendants(root.kids)
        hits == {i \in 1..Len(all) : all[i].tag = tag /\ all[i].name = name}
    IN  IF hits = {} THEN NoElem ELSE all[CHOOSE i \in hits : \A j \in hits : i <= j]

\* len(list.findall("item")) > 0
HasItems(list) == \E i \in 1..Len(list.kids) : list.kids[i].tag = "item"

\* Variant of clean_file: the root tag is not looked at.
clean_file_any_root(file) ==
    CASE file.kind = "missing" -> ""
      [] file.kind = "toolarge" -> "File size cannot exceed 10MB."
      [] file.kind = "badname" -> "Only XML files are allowed."
      [] file.kind = "badenc" -> "File must be a valid UTF-8 encoded XML file."
      [] file.kind = "badxml" -> "Invalid XML format"
      [] OTHER ->
            LET macros_list == FindDeep(file.root, "list", "Macros")
                categories_list == FindDeep(file.root, "list", "Categories")
                items_found == \/ macros_list # NoElem /\ HasItems(macros_list)
                               \/ categories_list # NoElem /\ HasItems(categories_list)
            IN  IF macros_list = NoElem /\ categories_list = NoElem
                THEN "Invalid Key Commands file: No Macros or Categories section found"
                ELSE IF ~items_found
                THEN "Invalid Key Commands file: No macros or categories found"
                ELSE ""

\* clean_file: the text of the ValidationError it raises for the uploaded
\* file [kind, root], "" when it returns the file. kind is "missing" (no
\* file posted), "toolarge", "badname" (name not *.xml), "badenc"
\* (UnicodeDecodeError), "badxml" (ET.ParseError) or "xml" with root the
\* parsed document.
clean_file(file) ==
    CASE file.kind = "missing" -> ""
      [] file.kind = "toolarge" -> "File size cannot exceed 10MB."
      [] file.kind = "badname" -> "Only XML files are allowed."
      [] file.kind = "badenc" -> "File must be a valid UTF-8 encoded XML file."
      [] file.kind = "badxml" -> "Invalid XML format"
      [] OTHER ->
            LET macros_list == FindDeep(file.root, "list", "Macros")
                categories_list == FindDeep(file.root, "list", "Categories")
                items_found == \/ macros_list # NoElem /\ HasItems(macros_list)
                               \/ categories_list # NoElem /\ HasItems(categories_list)
            IN  IF file.root.tag # "KeyCommands"
                THEN "Invalid Key Commands file: Root element must be 'KeyCommands'"
                ELSE IF macros_list = NoElem /\ categories_list = NoElem
                THEN "Invalid Key Commands file: No Macros or Categories section found"
                ELSE IF ~items_found
                THEN "Invalid Key Commands file: No macros or categories found"
                ELSE ""

\* What a POST without a file comes to: the form reports the missing
\* field, or (the field being optional) the view fails on the absent file
\* and reports a generic error.
MissingFileMessages == {"File: This field is required.", "Error processing your file"}

\* file: the uploaded file as clean_file sees it; parse: the outcome of
\* KeyCommandsParser(file_content).parse(), [kind, categories_data] with
\* kind "invalid_xml" or "error" for an exception whose text does or does
\* not name invalid XML, and "data" for a returned dict.
upload_keycommands(method, file, parse) ==
    IF user = AnonymousUser THEN redirect_to_login ELSE
    /\ UNCHANGED <<user, accounts, total_uploads, db, selected_macro_indices,
                   private_macro_indices, download_selected_macros>>
    /\ IF method # "POST"
       THEN /\ response' = Response("render:upload_keycommands", "")
            /\ UNCHANGED upload_data
       ELSE IF file.kind = "missing"
       THEN /\ \E m \in MissingFileMessages :
                    response' = Response("render:upload_keycommands", m)
            /\ UNCHANGED upload_data
       ELSE IF clean_file(file) # ""
       THEN /\ response' = Response("render:upload_keycommands", "File: " \o clean_file(file))
            /\ UNCHANGED upload_data
       ELSE IF parse.kind = "invalid_xml"
       THEN /\ response' = Response("render:upload_keycommands",
                                    "The uploaded file is not a valid XML file.")
            /\ UNCHANGED upload_data
       ELSE IF parse.kind = "error"
       THEN /\ response' = Response("render:upload_keycommands",
                                    "Error processing your file")
            /\ UNCHANGED upload_data
       ELSE IF parse.categories_data = <<>> \/ Flatten(parse.categories_data) = <<>>
       THEN /\ response' = Response("render:upload_keycommands",
                                    "The uploaded file doesn't contain any valid macros.")
            /\ UNCHANGED upload_data
       ELSE /\ Len(files) < MaxFiles
            /\ upload_data' = {[name |-> "My keys", description |-> "",
                                macros |-> Flatten(parse.categories_data)]}
            /\ response' = Response("redirect:select_macros_upload", "Found macros")

\* ---------------------------------------------- select_macros_upload
\* macro_copy = macro.copy(); macro_copy['index'] = idx
WithIndex(macro, idx) ==
    [f \in DOMAIN macro \cup {"index"} |-> IF f = "index" THEN idx ELSE macro[f]]

\* Variant of macros_with_index: the index is written into the macro held
\* by the session, not into a copy.
macros_with_index_in_place(upload_macros) ==
    [session |-> [i \in 1..Len(upload_macros) |-> WithIndex(upload_macros[i], i - 1)],
     shown |-> [i \in 1..Len(upload_macros) |-> WithIndex(upload_macros[i], i - 1)]]

\* The "Add index to each macro" loop: the list upload_data['macros'] as
\* the loop leaves it (session) and macros_with_index (shown).
macros_with_index(upload_macros) ==
    [session |-> upload_macros,
     shown |-> [i \in 1..Len(upload_macros) |-> WithIndex(upload_macros[i], i - 1)]]

\* macro['category'] or 'Uncategorized'
DisplayCategory(macro) == IF macro.category = "" THEN "Uncategorized" ELSE macro.category

\* The "Group macros by category" loop: <<category, macros>> entries in
\* the order of first occurrence.
RECURSIVE macros_by_category(_)
macros_by_category(shown) ==
    IF shown = <<>> THEN <<>>
    ELSE LET c == DisplayCategory(Head(shown))
         IN  << <<c, SelectSeq(shown, LAMBDA m : DisplayCategory(m) = c)>> >>
                \o macros_by_category(SelectSeq(shown, LAMBDA m : DisplayCategory(m) # c))

\* selected, private: request.POST.getlist('selected_macros') and
\* getlist('private_macros'), as increasing sequence and as set of indices.
select_macros_upload(method, selected, private) ==
    IF user = AnonymousUser THEN redirect_to_login ELSE
    /\ UNCHANGED <<user, accounts, total_uploads, db, download_selected_macros>>
    /\ IF upload_data = {}
       THEN /\ response' = Response("redirect:upload_keycommands", "Upload session expired.")
            /\ UNCHANGED <<upload_data, selected_macro_indices, private_macro_indices>>
       ELSE \E data \in upload_data :
            LET indexed == macros_with_index(data.macros)
                context == macros_by_category(indexed.shown)
            IN  /\ upload_data' = {[data EXCEPT !.macros = indexed.session]}
                /\ IF method = "POST"
                   THEN IF selected = <<>>
                        THEN /\ response' =
                                    [Response("render:select_macros_upload",
                                              "Please select at least one macro to save.")
                                        EXCEPT !.macros_by_category = context]
                             /\ UNCHANGED <<selected_macro_indices, private_macro_indices>>
                        ELSE /\ selected_macro_indices' = {selected}
                             /\ private_macro_indices' =
                                    {{idx \in private :
                                        \E k \in 1..Len(selected) : selected[k] = idx}}
                             /\ response' = Response("redirect:save_selected_macros", "")
                   ELSE /\ response' = [Response("render:select_macros_upload", "")
                                            EXCEPT !.macros_by_category = context]
                        /\ UNCHANGED <<selected_macro_indices, private_macro_indices>>

\* ---------------------------------------------- save_selected_macros
\* sep.join(parts)
RECURSIVE Join(_, _)
Join(parts, sep) ==
    IF parts = <<>> THEN ""
    ELSE IF Len(parts) = 1 THEN parts[1]
    ELSE parts[1] \o sep \o Join(Tail(parts), sep)

\* [cmd.get('name', '') for cmd in commands if cmd.get('name')]
RECURSIVE CommandNames(_)
CommandNames(commands) ==
    IF commands = <<>> THEN <<>>
    ELSE IF Head(commands).name # ""
    THEN <<Head(commands).name>> \o CommandNames(Tail(commands))
    ELSE CommandNames(Tail(commands))

\* "Prepare key binding string"
PrepareKeyBinding(key_bindings) ==
    IF key_bindings # <<>> THEN Join(key_bindings, ", ") ELSE ""

\* Variant of PrepareDescription: the first three commands are counted
\* among the "more" ones.
PrepareDescriptionCountAll(description, commands) ==
    LET command_names == CommandNames(commands)
    IN  IF description = "" /\ commands # <<>> /\ command_names # <<>>
        THEN IF Len(command_names) <= 3
             THEN "Executes: " \o Join(command_names, ", ")
             ELSE "Executes: " \o Join(SubSeq(command_names, 1, 3), ", ")
                    \o " and " \o ToString(Len(command_names)) \o " more commands"
        ELSE description

\* "Generate description if not provided"
PrepareDescription(description, commands) ==
    LET command_names == CommandNames(commands)
    IN  IF description = "" /\ commands # <<>> /\ command_names # <<>>
        THEN IF Len(command_names) <= 3
             THEN "Executes: " \o Join(command_names, ", ")
             ELSE "Executes: " \o Join(SubSeq(command_names, 1, 3), ", ")
                    \o " and " \o ToString(Len(command_names) - 3) \o " more commands"
        ELSE description

\* Macro.objects.update_or_create(keycommands_file, name, category,
\* defaults=...): [rows, created, raised]; more than one matching row
\* raises MultipleObjectsReturned.
UpdateOrCreate(rows, file_id, macro_data, macro_is_private) ==
    LET hits == {i \in 1..Len(rows) :
                    /\ rows[i].keycommands_file = file_id
                    /\ rows[i].name = macro_data.name
                    /\ rows[i].category = macro_data.category}
        description == PrepareDescription(macro_data.description, macro_data.commands)
        key_binding == PrepareKeyBinding(macro_data.key_bindings)
    IN  IF hits = {}
        THEN [rows |-> Append(rows,
                        MacroRow(file_id, macro_data.name, macro_data.category,
                                 description, key_binding, macro_data.commands,
                                 macro_data.xml_snippet, macro_data.reference_snippet,
                                 macro_is_private)),
              created |-> TRUE, raised |-> FALSE]
        ELSE IF Cardinality(hits) > 1
        THEN [rows |-> rows, created |-> FALSE, raised |-> TRUE]
        ELSE [rows |-> [i \in 1..Len(rows) |->
                          IF i \in hits
                          THEN [rows[i] EXCEPT !.description = description,
                                               !.key_binding = key_binding,
                                               !.commands = macro_data.commands,
                                               !.xml_snippet = macro_data.xml_snippet,
                                               !.reference_snippet = macro_data.reference_snippet,
                                               !.is_private = macro_is_private]
                          ELSE rows[i]],
              created |-> FALSE, raised |-> FALSE]

\* selected_macros_with_indices: the in-range indices, in selection order.
RECURSIVE InRange(_, _)
InRange(selected_indices, n) ==
    IF selected_indices = <<>> THEN <<>>
    ELSE IF 0 <= Head(selected_indices) /\ Head(selected_indices) < n
    THEN <<Head(selected_indices)>> \o InRange(Tail(selected_indices), n)
    ELSE InRange(Tail(selected_indices), n)

\* The "Process each selected macro" loop over the indices todo:
\* [rows, created_macros, skipped_macros] after it.
RECURSIVE SaveLoop(_, _, _, _, _, _, _)
SaveLoop(rows, file_id, parsed, todo, private_indices_set, created_macros, skipped_macros) ==
    IF todo = <<>>
    THEN [rows |-> rows, created_macros |-> created_macros, skipped_macros |-> skipped_macros]
    ELSE LET idx_int == Head(todo)
             macro_data == parsed[idx_int + 1]
             r == UpdateOrCreate(rows, file_id, macro_data, idx_int \in private_indices_set)
         IN  IF macro_data.name = ""
             THEN SaveLoop(rows, file_id, parsed, Tail(todo), private_indices_set,
                           created_macros, skipped_macros + 1)
             ELSE IF r.raised
             THEN SaveLoop(rows, file_id, parsed, Tail(todo), private_indices_set,
                           created_macros, skipped_macros + 1)
             ELSE SaveLoop(r.rows, file_id, parsed, Tail(todo), private_indices_set,
                           IF r.created THEN created_macros + 1 ELSE created_macros,
                           skipped_macros)

PrivateIndicesSet == IF private_macro_indices = {} THEN {} ELSE UNION private_macro_indices

\* Variant of ClearSessionData: the three entries stay in the session.
KeepSessionData == UNCHANGED upload_session

\* "Clear session data": the three pop calls.
ClearSessionData ==
    /\ upload_data' = {}
    /\ selected_macro_indices' = {}
    /\ private_macro_indices' = {}

\* The rows are written inside transaction.atomic(): either the block is
\* left normally and the view redirects to the new file, or an exception
\* leaves it (the database being locked, say), everything written is
\* rolled back and the view reports the error with the session as it was.
save_selected_macros ==
    IF user = AnonymousUser THEN redirect_to_login ELSE
    /\ UNCHANGED <<user, accounts, downloads, download_selected_macros>>
    /\ IF upload_data = {} \/ selected_macro_indices = {}
       THEN /\ response' = Response("redirect:upload_keycommands", "Session expired.")
            /\ UNCHANGED <<files, macros, total_uploads, upload_session>>
       ELSE \/ /\ response' = Response("redirect:upload_keycommands", "Error saving macros")
               /\ UNCHANGED <<files, macros, total_uploads, upload_session>>
            \/ \E data \in upload_data, selected_indices \in selected_macro_indices :
               LET file_id == Len(files) + 1
                   done == SaveLoop(macros, file_id, data.macros,
                                    InRange(selected_indices, Len(data.macros)),
                                    PrivateIndicesSet, 0, 0)
               IN  /\ files' = Append(files, FileRow(user, data.name, data.description, FALSE))
                   /\ macros' = done.rows
                   /\ total_uploads' = total_uploads + 1
                   /\ ClearSessionData
                   /\ response' = [Response("redirect:keycommands_detail", "Successfully saved")
                                       EXCEPT !.created_macros = done.created_macros,
                                              !.skipped_macros = done.skipped_macros]

\* ---------------------------------------------- download_keycommands
\* s.split(sep)
RECURSIVE Split(_, _)
Split(s, sep) ==
    LET cuts == {i \in 1..(Len(s) - Len(sep) + 1) : SubSeq(s, i, i + Len(sep) - 1) = sep}
    IN  IF cuts = {} THEN <<s>>
        ELSE LET i == CHOOSE c \in cuts : \A c2 \in cuts : c <= c2
             IN  <<SubSeq(s, 1, i - 1)>> \o Split(SubSeq(s, i + Len(sep), Len(s)), sep)

\* One entry of macros_data: what download_keycommands hands to the
\* generator for a stored macro.
MacroData(macro) ==
    [name |-> macro.name,
     category |-> macro.category,
     key_bindings |-> IF macro.key_binding # "" THEN Split(macro.key_binding, ", ") ELSE <<>>,
     description |-> macro.description,
     commands |-> macro.commands]

\* keycommands_file.macros.all(): the ids of the macros of the file.
MacrosOfFile(rows, file_id) == {i \in 1..Len(rows) : rows[i].keycommands_file = file_id}

\* macros_data for the macros of the file, taken in the order ids.
MacrosData(rows, ids) == [k \in 1..Len(ids) |-> MacroData(rows[ids[k]])]

\* generated: whether create_keycommands_xml(macros_data) returns (TRUE)
\* or raises (FALSE). The queryset yields the macros in some order.
download_keycommands(file_id, generated) ==
    IF user = AnonymousUser THEN redirect_to_login ELSE
    /\ UNCHANGED <<user, accounts, total_uploads, macros, downloads, upload_session,
                   download_selected_macros>>
    /\ IF ~FileVisible(file_id)
       THEN /\ response' = Response("404", "")
            /\ UNCHANGED files
       ELSE /\ Counted < MaxDownloads
            /\ files' = [files EXCEPT ![file_id].download_count = @ + 1]
            /\ IF MacrosOfFile(macros, file_id) = {}
               THEN response' = Response("redirect:keycommands_detail",
                                         "No macros found in this file.")
               ELSE IF ~generated
               THEN response' = Response("redirect:keycommands_detail",
                                         "Error generating download file.")
               ELSE \E order \in Orders(MacrosOfFile(macros, file_id)) :
                       response' = [Response("attachment:keycommands", "") EXCEPT
                                        !.macro_ids = order,
                                        !.macros_data = MacrosData(macros, order)]

\* ------------------------------------------- upload workflow: inputs
Cmd(n) == [name |-> n]

\* A macro as the parser returns it.
Parsed(name, category, description, key_bindings, commands, xml, ref) ==
    [name |-> name, category |-> category, description |-> description,
     key_bindings |-> key_bindings, commands |-> commands,
     xml_snippet |-> xml, reference_snippet |-> ref]

\* Macros of a parse: two with the same name in the same category and
\* different content, one with an explicit description, one without name.
ParsedPool ==
    { Parsed("Dup", "Macro", "", <<>>, <<>>, Snip(DefItem("Dup")), NoSnippet),
      Parsed("Dup", "Macro", "", <<"Ctrl+M", "Alt+M">>,
             <<Cmd("Solo"), Cmd("Mute"), Cmd("Undo"), Cmd("Redo")>>,
             NoSnippet, Snip(RefItem("Dup"))),
      Parsed("Solo", "Tools", "My solo", <<"F2">>, <<Cmd("Solo"), Cmd("Mute")>>,
             Snip(DefItem("Solo")), Snip(RefItem("Solo"))),
      Parsed("", "Tools", "", <<>>, <<Cmd("Mute")>>, BadSnippet, NoSnippet) }

\* The parser's dict for the macros of flat: one entry per category, in
\* the order of first occurrence.
RECURSIVE Group(_)
Group(flat) ==
    IF flat = <<>> THEN <<>>
    ELSE LET c == Head(flat).category
         IN  << <<c, SelectSeq(flat, LAMBDA m : m.category = c)>> >>
                \o Group(SelectSeq(flat, LAMBDA m : m.category # c))

NoParse == [kind |-> "error", categories_data |-> <<>>]

ParseOutcomes ==
    {[kind |-> k, categories_data |-> <<>>] : k \in {"invalid_xml", "error"}}
    \cup {[kind |-> "data", categories_data |-> Group(flat)] :
                flat \in SeqUpTo(ParsedPool, MaxParsed)}

\* Increasing sequences of indices below n (n - 1 is out of range for
\* every list of fewer than n macros).
IndexLists(n) ==
    {s \in SeqUpTo(0..(n - 1), n) : \A i \in 1..(Len(s) - 1) : s[i] < s[i + 1]}

\* Posted private_macros: none, or the first macro only (selected or not).
PrivateLists == {{}, {0}}

\* Documents of uploaded files: without any list, with a "Macros" list
\* with and without items, with an empty "Macros" list and a "Categories"
\* list with an item, with a "Categories" list only, with the only
\* "Macros" list below an item of another list, and with another root tag.
UploadRoots ==
    { El("KeyCommands", NoAttr, NoAttr, NoAttr, <<>>),
      El("KeyCommands", NoAttr, NoAttr, NoAttr, <<List("Macros", <<DefItem("Dup")>>)>>),
      El("KeyCommands", NoAttr, NoAttr, NoAttr, <<List("Macros", <<>>)>>),
      El("KeyCommands", NoAttr, NoAttr, NoAttr,
         <<List("Macros", <<>>), List("Categories", <<Item(<<Str("Name", "Macro")>>)>>)>>),
      El("KeyCommands", NoAttr, NoAttr, NoAttr,
         <<List("Categories", <<Item(<<Str("Name", "Macro")>>)>>)>>),
      El("KeyCommands", NoAttr, NoAttr, NoAttr,
         <<List("Presets", <<Item(<<List("Macros", <<DefItem("Dup")>>)>>)>>)>>),
      El("Preferences", NoAttr, NoAttr, NoAttr, <<List("Macros", <<DefItem("Dup")>>)>>) }

NoUpload == [kind |-> "missing", root |-> NoElem]

\* An upload of a document with a "Macros" list of one item.
PlainUpload ==
    [kind |-> "xml",
     root |-> El("KeyCommands", NoAttr, NoAttr, NoAttr, <<List("Macros", <<DefItem("Dup")>>)>>)]

UploadFiles ==
    {[kind |-> k, root |-> NoElem] : k \in {"missing", "toolarge", "badname", "badenc", "badxml"}}
    \cup {[kind |-> "xml", root |-> r] : r \in UploadRoots}

\* TRUE when upload_keycommands goes on to the parser with the file. The
\* response then depends on the parser's outcome alone.
PassesForm(file) == file.kind # "missing" /\ clean_file(file) = ""

Init ==
    /\ user = "u1"
    /\ files = <<>>
    /\ macros = <<>>
    /\ downloads = <<>>
    /\ total_uploads = 0
    /\ upload_data = {}
    /\ selected_macro_indices = {}
    /\ private_macro_indices = {}
    /\ download_selected_macros = {}
    /\ InitAccounts
    /\ response = Response("none", "")

Next ==
    \/ upload_keycommands("GET", NoUpload, NoParse)
    \/ \E file \in UploadFiles :
          /\ ~PassesForm(file)
          /\ upload_keycommands("POST", file, NoParse)
    \/ \E file \in UploadFiles :
          /\ PassesForm(file)
          /\ upload_keycommands("POST", file, NoParse)
    \/ \E parse \in ParseOutcomes : upload_keycommands("POST", PlainUpload, parse)
    \/ select_macros_upload("GET", <<>>, {})
    \/ \E selected \in IndexLists(MaxParsed), private \in PrivateLists :
          select_macros_upload("POST", selected, private)
    \/ save_selected_macros
    \/ \E file_id \in FileIds, generated \in BOOLEAN :
          download_keycommands(file_id, generated)

Spec == Init /\ [][Next]_vars

\* ------------------------------------ upload and selection steps only
\* The requests of the workflow before the save: the database plays no
\* part in them and stays as Init leaves it.
NextUpload ==
    \/ upload_keycommands("GET", NoUpload, NoParse)
    \/ \E file \in UploadFiles :
          /\ ~PassesForm(file)
          /\ upload_keycommands("POST", file, NoParse)
    \/ \E file \in UploadFiles :
          /\ PassesForm(file)
          /\ upload_keycommands("POST", file, NoParse)
    \/ \E parse \in ParseOutcomes : upload_keycommands("POST", PlainUpload, parse)
    \/ select_macros_upload("GET", <<>>, {})
    \/ \E selected \in IndexLists(MaxParsed), private \in PrivateLists :
          select_macros_upload("POST", selected, private)

SpecUpload == Init /\ [][NextUpload]_vars

\* --------------------------------- description preparation: inputs
CommandPool == {Cmd("Solo"), Cmd("Mute"), Cmd("Undo"), Cmd("Redo"), Cmd("")}

\* The session as upload_keycommands and select_macros_upload leave it for
\* an upload of one macro, with or without a description and with any
\* commands, selected for saving.
InitDescription ==
    /\ user = "u1"
    /\ files = <<>>
    /\ macros = <<>>
    /\ downloads = <<>>
    /\ total_uploads = 0
    /\ \E description \in {"", "My mix"}, commands \in SeqUpTo(CommandPool, MaxCommands) :
          upload_data = {[name |-> "My keys", description |-> "",
                          macros |-> <<Parsed("Mix", "Tools", description, <<>>, commands,
                                              NoSnippet, NoSnippet)>>]}
    /\ selected_macro_indices = {<<0>>}
    /\ private_macro_indices = {{}}
    /\ download_selected_macros = {}
    /\ InitAccounts
    /\ response = Response("redirect:save_selected_macros", "")

NextDescription ==
    \/ select_macros_upload("GET", <<>>, {})
    \/ \E selected \in IndexLists(2), private \in PrivateLists :
          select_macros_upload("POST", selected, private)
    \/ save_selected_macros

SpecDescription == InitDescription /\ [][NextDescription]_vars


\* =====================================================================
\* Pages of a macro and of a file, file management
\* =====================================================================
\* get_object_or_404(Macro, id=macro_id): TRUE when a row is found.
MacroExists(macro_id) == macro_id \in 1..Len(macros) /\ macros[macro_id] # DeletedMacro

\* vote.save() for vote_form(instance=user_vote): the vote of the user for
\* the macro is created, or replaced when there is one.
SaveVote(votes, voter, rating) ==
    {v \in votes : v.user # voter} \cup {[user |-> voter, rating |-> rating]}

\* related_macros: the public macros of the same category, the macro
\* itself left out (the slice [:5] keeps them all: fewer are stored).
RelatedMacros(macro_id) ==
    {i \in 1..Len(macros) :
        /\ macros[i] # DeletedMacro
        /\ macros[i].category = macros[macro_id].category
        /\ ~macros[i].is_private
        /\ i # macro_id}

\* ----------------------------------------------------------- macro_detail
\* vote: the posted MacroVoteForm, [valid, rating].
macro_detail(macro_id, method, vote) ==
    /\ UNCHANGED <<user, accounts, files, downloads, total_uploads, upload_session,
                   download_selected_macros>>
    /\ IF ~MacroExists(macro_id)
       THEN /\ response' = Response("404", "")
            /\ UNCHANGED macros
       ELSE IF /\ macros[macro_id].is_private
               /\ \/ user = AnonymousUser
                  \/ files[macros[macro_id].keycommands_file].user # user
       THEN /\ response' = Response("404", "Macro not found")
            /\ UNCHANGED macros
       ELSE /\ Counted < MaxDownloads
            /\ IF method = "POST" /\ user # AnonymousUser /\ vote.valid
               THEN /\ macros' = [macros EXCEPT
                                    ![macro_id].view_count = @ + 1,
                                    ![macro_id].votes = SaveVote(@, user, vote.rating)]
                    /\ response' = Response("redirect:macro_detail",
                                            "Your rating has been saved!")
               ELSE /\ macros' = [macros EXCEPT ![macro_id].view_count = @ + 1]
                    /\ response' = [Response("render:macro_detail", "") EXCEPT
                                        !.macro_ids = <<macro_id>>,
                                        !.context_macros = RelatedMacros(macro_id)]

\* ------------------------------------------------------ keycommands_detail
\* s.strip()
Strip(s) ==
    LET keep == {i \in 1..Len(s) : SubSeq(s, i, i) # " "}
    IN  IF keep = {} THEN ""
        ELSE SubSeq(s, CHOOSE i \in keep : \A j \in keep : i <= j,
                       CHOOSE i \in keep : \A j \in keep : j <= i)

\* keycommands_file.delete(): the row goes and with it, by cascade, the
\* macros of the file and their votes and MacroDownload rows.
DeleteFile(file_id) ==
    /\ files' = [files EXCEPT ![file_id] = DeletedFile]
    /\ macros' = [i \in 1..Len(macros) |->
                    IF macros[i].keycommands_file = file_id THEN DeletedMacro ELSE macros[i]]
    /\ downloads' = SelectSeq(downloads,
                        LAMBDA d : macros[d.macro].keycommands_file # file_id)

\* Variant of EditFile: the macros keep their own visibility.
EditFileOnly(file_id, name, description, is_private) ==
    /\ files' = [files EXCEPT ![file_id].name = name,
                              ![file_id].description = description,
                              ![file_id].is_private = is_private]
    /\ UNCHANGED <<macros, downloads>>

\* The edit_file branch for a name that is not empty: the file is saved
\* and every macro of the file gets the visibility of the file.
EditFile(file_id, name, description, is_private) ==
    /\ files' = [files EXCEPT ![file_id].name = name,
                              ![file_id].description = description,
                              ![file_id].is_private = is_private]
    /\ macros' = [i \in 1..Len(macros) |->
                    IF macros[i].keycommands_file = file_id
                    THEN [macros[i] EXCEPT !.is_private = is_private]
                    ELSE macros[i]]
    /\ UNCHANGED downloads

\* Variant of ToggleMacroVisibility: the macro is looked up among all
\* macros, not among those of the file.
ToggleAnyMacroVisibility(file_id, macro_id) ==
    IF MacroExists(macro_id)
    THEN /\ macros' = [macros EXCEPT ![macro_id].is_private = ~@]
         /\ response' = Response("redirect:keycommands_detail",
                            "Macro \"" \o macros[macro_id].name \o "\" is now "
                                \o (IF macros[macro_id].is_private THEN "public" ELSE "private")
                                \o ".")
    ELSE /\ response' = Response("redirect:keycommands_detail", "Macro not found.")
         /\ UNCHANGED macros

\* The toggle_macro_visibility branch: keycommands_file.macros.get(id=
\* macro_id) finds macros of this file only.
ToggleMacroVisibility(file_id, macro_id) ==
    IF MacroExists(macro_id) /\ macros[macro_id].keycommands_file = file_id
    THEN /\ macros' = [macros EXCEPT ![macro_id].is_private = ~@]
         /\ response' = Response("redirect:keycommands_detail",
                            "Macro \"" \o macros[macro_id].name \o "\" is now "
                                \o (IF macros[macro_id].is_private THEN "public" ELSE "private")
                                \o ".")
    ELSE /\ response' = Response("redirect:keycommands_detail", "Macro not found.")
         /\ UNCHANGED macros

\* Variant of IsOwner: every logged-in client passes.
IsLoggedIn(file_id) == user # AnonymousUser

\* request.user == keycommands_file.user
IsOwner(file_id) == files[file_id].user = user

\* post: the posted form, [action, name, description, is_private,
\* macro_id]; the page is requested without category and visibility filter.
keycommands_detail(file_id, method, post) ==
    /\ UNCHANGED <<user, accounts, total_uploads, upload_session, download_selected_macros>>
    /\ IF ~FileVisible(file_id)
       THEN /\ response' = Response("404", "")
            /\ UNCHANGED db
       ELSE IF method = "POST" /\ IsOwner(file_id)
       THEN CASE post.action = "edit_file" ->
                    IF Strip(post.name) # ""
                    THEN /\ EditFile(file_id, Strip(post.name), Strip(post.description),
                                     post.is_private)
                         /\ response' = Response("redirect:keycommands_detail",
                                                 "File details updated successfully!")
                    ELSE /\ response' = Response("redirect:keycommands_detail",
                                                 "File name is required.")
                         /\ UNCHANGED db
              [] post.action = "delete_file" ->
                    /\ DeleteFile(file_id)
                    /\ response' = Response("redirect:my_keycommands",
                            "File \"" \o files[file_id].name \o "\" has been deleted.")
              [] post.action = "toggle_macro_visibility" ->
                    /\ ToggleMacroVisibility(file_id, post.macro_id)
                    /\ UNCHANGED <<files, downloads>>
              [] OTHER ->
                    /\ response' = Response("redirect:keycommands_detail", "")
                    /\ UNCHANGED db
       ELSE /\ response' = [Response("render:keycommands_detail", "") EXCEPT
                                !.context_macros = MacrosOfFile(macros, file_id)]
            /\ UNCHANGED db

\* -------------------------------------------------- delete_keycommands_file
delete_keycommands_file(file_id, method) ==
    IF user = AnonymousUser THEN redirect_to_login ELSE
    /\ UNCHANGED <<user, accounts, total_uploads, upload_session, download_selected_macros>>
    /\ IF method # "POST"
       THEN /\ response' = Response("405", "")
            /\ UNCHANGED db
       ELSE IF ~FileExists(file_id)
       THEN /\ response' = Response("404", "")
            /\ UNCHANGED db
       ELSE IF ~IsOwner(file_id)
       THEN /\ response' = Response("redirect:my_keycommands",
                                    "You do not have permission to delete this file.")
            /\ UNCHANGED db
       ELSE /\ DeleteFile(file_id)
            /\ response' = Response("redirect:my_keycommands",
                    "File \"" \o files[file_id].name \o "\" has been deleted successfully.")

\* ---------------------------------------------------------------- edit_macro
\* get_object_or_404(Macro, id=macro_id, keycommands_file__user=request.user)
OwnMacro(macro_id) ==
    /\ MacroExists(macro_id)
    /\ files[macros[macro_id].keycommands_file].user = user

\* form: the posted MacroForm, [valid, name, description, key_binding]; its
\* field is_public is no column the views of the application read.
edit_macro(macro_id, method, form) ==
    IF user = AnonymousUser THEN redirect_to_login ELSE
    /\ UNCHANGED <<user, accounts, files, downloads, total_uploads, upload_session,
                   download_selected_macros>>
    /\ IF ~OwnMacro(macro_id)
       THEN /\ response' = Response("404", "")
            /\ UNCHANGED macros
       ELSE IF method = "POST" /\ form.valid
       THEN /\ macros' = [macros EXCEPT ![macro_id].name = form.name,
                                        ![macro_id].description = form.description,
                                        ![macro_id].key_binding = form.key_binding]
            /\ response' = Response("redirect:macro_detail", "Macro updated successfully!")
       ELSE /\ response' = [Response("render:edit_macro", "") EXCEPT
                                !.macro_ids = <<macro_id>>]
            /\ UNCHANGED macros

\* ---------------------------------------------------- select_macros_for_file
\* Macro.objects.filter(id__in=selected_macro_ids, is_private=False)
PublicMacroIds(macro_ids) ==
    {i \in 1..Len(macros) : i \in macro_ids /\ macros[i] # DeletedMacro /\ ~macros[i].is_private}

\* available_macros: the public macros of the other files.
AvailableMacros(file_id) ==
    {i \in 1..Len(macros) :
        /\ macros[i] # DeletedMacro
        /\ ~macros[i].is_private
        /\ macros[i].keycommands_file # file_id}

\* selected: request.POST.getlist('selected_macros') as a set of ids;
\* generated: whether create_keycommands_xml_with_embedded_macros returns
\* (TRUE) or raises (FALSE). The queryset yields its rows in some order.
select_macros_for_file(file_id, method, selected, generated) ==
    IF user = AnonymousUser THEN redirect_to_login ELSE
    /\ UNCHANGED <<user, accounts, files, total_uploads, upload_session, download_selected_macros>>
    /\ IF ~(FileExists(file_id) /\ IsOwner(file_id))
       THEN /\ response' = Response("404", "")
            /\ UNCHANGED <<macros, downloads>>
       ELSE IF method = "POST" /\ selected # {} /\ generated
       THEN \E order \in Orders(PublicMacroIds(selected)) :
            /\ Counted < MaxDownloads
            /\ response' = [Response("attachment:with_macros", "Downloaded") EXCEPT
                                !.macro_ids = order]
            /\ RecordDownloads(order)
       ELSE /\ response' = [Response("render:select_macros_for_file",
                                IF method # "POST" THEN ""
                                ELSE IF selected = {}
                                THEN "Please select at least one macro to embed."
                                ELSE "Error generating file")
                              EXCEPT !.context_macros = AvailableMacros(file_id)]
            /\ UNCHANGED <<macros, downloads>>

\* ------------------------------------------------------------------- login
\* CustomLoginView: a client that is not logged in becomes the user u; its
\* session is kept.
login(u) ==
    /\ user = AnonymousUser
    /\ user' = u
    /\ response' = Response("redirect:home", "")
    /\ UNCHANGED <<accounts, total_uploads, db, upload_session, download_selected_macros>>

\* ------------------------------------------- file management: inputs
\* Ids a URL can name for a macro: every stored id and one unknown id.
MacroIds == 1..(Len(macros) + 1)

\* Posted rating forms: one that fails validation, and two ratings.
VoteForms ==
    {[valid |-> FALSE, rating |-> 0], [valid |-> TRUE, rating |-> 1],
     [valid |-> TRUE, rating |-> 5]}

\* Posted file forms: an edit with no name, with a name of blanks and with
\* a name between blanks, each for both visibilities; a deletion; a toggle
\* for every macro id; and a form with another action.
FilePost(action, name, is_private, macro_id) ==
    [action |-> action, name |-> name, description |-> " Notes", is_private |-> is_private,
     macro_id |-> macro_id]

EditPosts ==
    {FilePost("edit_file", name, is_private, 0) :
        name \in {"", "  ", " Keys "}, is_private \in BOOLEAN}

TogglePosts == {FilePost("toggle_macro_visibility", "", FALSE, macro_id) : macro_id \in MacroIds}

OtherPosts == {FilePost("delete_file", "", FALSE, 0), FilePost("", "", FALSE, 0)}

\* The rows with the visibility flags of private, one flag per row.
WithVisibility(rows, private) ==
    [i \in 1..Len(rows) |-> [rows[i] EXCEPT !.is_private = private[i]]]

\* File management starts from a client that is not logged in and a
\* database as saves, edits and toggles leave it: file 1 of u1, public or
\* private, with MaxMacros macros of any visibility, and the public file
\* 2 of u2 with one public macro.
InitManage ==
    /\ user = AnonymousUser
    /\ \E private \in BOOLEAN :
          files = << FileRow("u1", "f1", "", private), FileRow("u2", "f2", "", FALSE) >>
    /\ \E rows \in StoredRows(MaxMacros) :
       \E private \in [1..Len(rows) -> BOOLEAN] :
          /\ UniqueKeys(rows)
          /\ macros = Append(WithVisibility(rows, private),
                MacroRow(2, "Dup", "Macro", "", "", <<>>,
                         Snip(DefItem("Dup")), Snip(RefItem("Dup")), FALSE))
    /\ downloads = <<>>
    /\ total_uploads = 0
    /\ upload_data = {}
    /\ selected_macro_indices = {}
    /\ private_macro_indices = {}
    /\ download_selected_macros = {}
    /\ InitAccounts
    /\ response = Response("none", "")

\* The form edit_macro is posted for a macro: one that fails validation
\* and one that passes, with the macro's name and new other fields.
MacroFormsFor(macro_id) ==
    {[valid |-> FALSE, name |-> "", description |-> "", key_binding |-> ""],
     [valid |-> TRUE, name |-> IF MacroExists(macro_id) THEN macros[macro_id].name ELSE "",
      description |-> "Edited", key_binding |-> "F3"]}

NextManage ==
    \/ \E u \in Users : login(u)
    \/ \E file_id \in FileIds : keycommands_detail(file_id, "GET", FilePost("", "", FALSE, 0))
    \/ \E file_id \in FileIds, post \in EditPosts : keycommands_detail(file_id, "POST", post)
    \/ \E file_id \in FileIds, post \in TogglePosts : keycommands_detail(file_id, "POST", post)
    \/ \E file_id \in FileIds, post \in OtherPosts : keycommands_detail(file_id, "POST", post)
    \/ \E file_id \in FileIds, method \in {"GET", "POST"} :
          delete_keycommands_file(file_id, method)
    \/ \E macro_id \in MacroIds, method \in {"GET", "POST"} :
       \E form \in MacroFormsFor(macro_id) :
          edit_macro(macro_id, method, form)

SpecManage == InitManage /\ [][NextManage]_vars

\* -------------------------------------------- pages and downloads: inputs
\* The requests that show or deliver macros, by a client that logs in as
\* any user, on the database of InitManage.
NextPrivacy ==
    \/ \E u \in Users : login(u)
    \/ \E macro_id \in MacroIds : macro_detail(macro_id, "GET", [valid |-> FALSE, rating |-> 0])
    \/ \E macro_id \in MacroIds, vote \in VoteForms : macro_detail(macro_id, "POST", vote)
    \/ \E file_id \in FileIds, selected \in SUBSET PostableIds, generated \in BOOLEAN :
          select_macros_for_file(file_id, "POST", selected, generated)
    \/ \E file_id \in FileIds : select_macros_for_file(file_id, "GET", {}, TRUE)
    \/ \E file_id \in FileIds, generated \in BOOLEAN : download_keycommands(file_id, generated)
    \/ \E file_id \in FileIds, selected \in {{}, PostableIds} :
          download_selected_macros_view(file_id, "POST", selected)
    \/ \E file_id \in FileIds, user_file \in {NoUserFile, PlainUpload} :
          upload_user_file_for_download(file_id, "POST", user_file)

SpecPrivacy == InitManage /\ [][NextPrivacy]_vars

\* =====================================================================
\* Properties of the merge (SpecMerge)
\* =====================================================================
\* A merged document was delivered by the last request.
Delivered == response.kind = "attachment"

IsNamedList(e, n) == e.tag = "list" /\ e.name = n

SameHead(a, b) ==
    a.tag = b.tag /\ a.name = b.name /\ a.value = b.value /\ a.type = b.type

IsPrefix(s, t) == Len(s) <= Len(t) /\ \A i \in 1..Len(s) : s[i] = t[i]

\* b is a with nothing but new children after the old ones.
AppendOnly(a, b) == SameHead(a, b) /\ IsPrefix(a.kids, b.kids)

\* The value of an item's first <string name="Name">, NoAttr without one.
NameOf(item) ==
    LET named == {i \in 1..Len(item.kids) :
                    item.kids[i].tag = "string" /\ item.kids[i].name = "Name"}
    IN  IF named = {} THEN NoAttr
        ELSE item.kids[CHOOSE i \in named : \A j \in named : i <= j].value

IsMacroItem(e) == e.tag = "item" /\ NameOf(e) = "Macro"

\* Positions of the children of e that satisfy Test.
Where(e, Test(_)) == {i \in 1..Len(e.kids) : Test(e.kids[i])}

First(S) == CHOOSE i \in S : \A j \in S : i <= j

IsMacrosList(e) == IsNamedList(e, "Macros")
IsCategoriesList(e) == IsNamedList(e, "Categories")
IsCommandsList(e) == IsNamedList(e, "Commands")

\* An item of a Categories list: one named "Macro" may gain children and
\* its Commands lists may gain items; every other item is unchanged.
ItemKept(a, b) ==
    IF IsMacroItem(a)
    THEN /\ SameHead(a, b)
         /\ Len(a.kids) <= Len(b.kids)
         /\ \A k \in 1..Len(a.kids) :
               IF IsCommandsList(a.kids[k]) THEN AppendOnly(a.kids[k], b.kids[k])
               ELSE a.kids[k] = b.kids[k]
    ELSE a = b

\* A child of the root: a "Macros" list may gain items, a "Categories"
\* list may gain items and changes in its "Macro" items only; every other
\* child is unchanged.
RootKidKept(a, b) ==
    IF IsMacrosList(a) THEN AppendOnly(a, b)
    ELSE IF IsCategoriesList(a)
    THEN /\ SameHead(a, b)
         /\ Len(a.kids) <= Len(b.kids)
         /\ \A k \in 1..Len(a.kids) : ItemKept(a.kids[k], b.kids[k])
    ELSE a = b

\* C1 as stated: in a delivered document every node outside the root-level
\* "Macros" list, the root-level "Categories" list, its "Macro" item and
\* that item's "Commands" list is unchanged, the root with its children
\* included; the only changes are children appended to those four nodes.
C1_FrameAsStated ==
    Delivered =>
        /\ SameHead(response.user_root, response.root)
        /\ Len(response.root.kids) = Len(response.user_root.kids)
        /\ \A k \in 1..Len(response.user_root.kids) :
              RootKidKept(response.user_root.kids[k], response.root.kids[k])

\* C1 amended: as C1, except that the root gains one last child, a list
\* named "Macros", when it had no root-level "Macros" list.
C1_Frame ==
    Delivered =>
        LET old == response.user_root
            new == response.root
        IN  /\ SameHead(old, new)
            /\ \A k \in 1..Len(old.kids) : k <= Len(new.kids) /\ RootKidKept(old.kids[k], new.kids[k])
            /\ IF Where(old, IsMacrosList) = {}
               THEN /\ Len(new.kids) = Len(old.kids) + 1
                    /\ IsMacrosList(new.kids[Len(new.kids)])
               ELSE Len(new.kids) = Len(old.kids)

\* C1 witness: macros were merged into a document that has a "Categories"
\* list with another category, an unrelated root child position and no
\* "Macros" list.
C1_Witness ==
    /\ Delivered
    /\ response.macro_ids # <<>>
    /\ Where(response.user_root, IsMacrosList) = {}
    /\ \E k \in Where(response.user_root, IsCategoriesList) :
          Len(response.user_root.kids[k].kids) = 2
    /\ Len(response.root.kids) = 3

\* C2 as stated: merging an empty set of macros delivers the uploaded
\* document unchanged.
C2_EmptyMergeIsNoOp ==
    (Delivered /\ response.macro_ids = <<>>) => response.root = response.user_root

\* Number of items in the first root-level "Macros" list of root, 0
\* without such a list.
MacrosCount(root) ==
    IF Where(root, IsMacrosList) = {} THEN 0
    ELSE Len(root.kids[First(Where(root, IsMacrosList))].kids)

\* C3 as stated: the "Macros" list of a delivered document holds one more
\* item per merged macro than the uploaded document's.
C3_OneDefinitionPerMacro ==
    Delivered =>
        MacrosCount(response.root) = MacrosCount(response.user_root) + Len(response.macro_ids)

\* TRUE when root has a Categories list whose "Macro" item has a Commands
\* list with an item named name.
HasReference(root, name) ==
    \E c \in Where(root, IsCategoriesList) :
    \E i \in Where(root.kids[c], IsMacroItem) :
    \E l \in Where(root.kids[c].kids[i], IsCommandsList) :
    \E r \in 1..Len(root.kids[c].kids[i].kids[l].kids) :
        NameOf(root.kids[c].kids[i].kids[l].kids[r]) = name

\* C4 as stated: a delivered document with at least one merged macro has
\* Categories / "Macro" / Commands with a reference for every merged
\* macro, also when the upload had no "Categories" list.
C4_ReferencesAlways ==
    (Delivered /\ response.macro_ids # <<>>) =>
        \A k \in 1..Len(response.macro_ids) :
            HasReference(response.root, macros[response.macro_ids[k]].name)

\* The reference the claim expects for the macro with id: its stored
\* reference snippet when that re-parses, else an item with only Name.
ExpectedReference(id) ==
    LET m == macros[id]
    IN  IF m.reference_snippet = NoSnippet \/ m.reference_snippet = BadSnippet
        THEN Item(<<Str("Name", m.name)>>)
        ELSE m.reference_snippet.elem

\* The items of the Commands list of the first "Macro" item of the
\* Categories list cats, <<>> when there is no such item or list.
MacroCommands(cats) ==
    IF Where(cats, IsMacroItem) = {} THEN <<>>
    ELSE LET item == cats.kids[First(Where(cats, IsMacroItem))]
         IN  IF Where(item, IsCommandsList) = {} THEN <<>>
             ELSE item.kids[First(Where(item, IsCommandsList))].kids

Max(a, b) == IF a >= b THEN a ELSE b

\* C5: when the uploaded document has a root-level "Categories" list, the
\* Commands list of its "Macro" item holds, after its old items, exactly
\* one reference per merged macro in merge order (the stored snippet when
\* it re-parses, else a Name-only item), and the number of "Macro" items
\* and of their Commands lists grows only from zero to one.
C5_References ==
    (Delivered /\ Where(response.user_root, IsCategoriesList) # {}) =>
        LET c == First(Where(response.user_root, IsCategoriesList))
            old == response.user_root.kids[c]
            new == response.root.kids[c]
            olditems == Where(old, IsMacroItem)
            newitem == new.kids[First(Where(new, IsMacroItem))]
        IN  /\ IsCategoriesList(new)
            /\ Cardinality(Where(new, IsMacroItem)) = Max(1, Cardinality(olditems))
            /\ Cardinality(Where(newitem, IsCommandsList)) =
                  IF olditems = {} THEN 1
                  ELSE Max(1, Cardinality(Where(old.kids[First(olditems)], IsCommandsList)))
            /\ MacroCommands(new) = MacroCommands(old) \o
                  [k \in 1..Len(response.macro_ids) |-> ExpectedReference(response.macro_ids[k])]

\* C5 witness: two macros, one with a reference snippet that re-parses and
\* one without, were merged into a document whose "Macro" item already
\* had a Commands list with an item.
C5_Witness ==
    /\ Delivered
    /\ Len(response.macro_ids) = 2
    /\ \E k \in 1..2 : macros[response.macro_ids[k]].reference_snippet.parses
    /\ \E k \in 1..2 : ~macros[response.macro_ids[k]].reference_snippet.parses
    /\ \E c \in Where(response.user_root, IsCategoriesList) :
          MacroCommands(response.user_root.kids[c]) # <<>>

\* C6 as stated: no merged document is delivered when the definition
\* snippet of a selected macro does not re-parse.
C6_ReparseFailureAborts ==
    Delivered =>
        \A k \in 1..Len(response.macro_ids) :
            macros[response.macro_ids[k]].xml_snippet # BadSnippet

\* Number of items named name in the first root-level "Macros" list.
NamedCount(root, name) ==
    IF Where(root, IsMacrosList) = {} THEN 0
    ELSE LET list == root.kids[First(Where(root, IsMacrosList))]
         IN  Cardinality({i \in 1..Len(list.kids) : NameOf(list.kids[i]) = name})

\* C7 as stated: for every name, the "Macros" list of a delivered document
\* holds the items of that name it held before plus one per merged macro
\* of that name.
C7_NoDeduplication ==
    Delivered =>
        \A name \in {"Dup", "Solo"} :
            NamedCount(response.root, name) =
                NamedCount(response.user_root, name)
                + Cardinality({k \in 1..Len(response.macro_ids) :
                                  macros[response.macro_ids[k]].name = name})

\* C9: a delivered document has a root-level "Macros" list; the number of
\* root-level "Macros" lists is that of the upload, or one when the upload
\* had none; a list the upload had stays in place and keeps its items
\* before the appended ones, and a created list is the root's last child.
C9_MacrosList ==
    Delivered =>
        LET old == response.user_root
            new == response.root
            was == Where(old, IsMacrosList)
            now == Where(new, IsMacrosList)
        IN  /\ now # {}
            /\ Cardinality(now) = Max(1, Cardinality(was))
            /\ was # {} => /\ First(now) = First(was)
                           /\ IsPrefix(old.kids[First(was)].kids, new.kids[First(now)].kids)
            /\ was = {} => now = {Len(old.kids) + 1}

\* C9 witness: a definition was appended to the "Macros" list the upload
\* already had.
C9_Witness ==
    /\ Delivered
    /\ Where(response.user_root, IsMacrosList) # {}
    /\ MacrosCount(response.root) > MacrosCount(response.user_root)


\* =====================================================================
\* Properties of the upload workflow (Spec, SpecDescription)
\* =====================================================================
\* This step is a save_selected_macros request that stored a file.
SaveStep ==
    /\ upload_data # {}
    /\ selected_macro_indices # {}
    /\ Len(files') = Len(files) + 1

\* The parsed macros the session selects for saving: the positions (from
\* 1) of the in-range entries of selected_macro_indices.
SelectedPositions ==
    {i + 1 : i \in {idx \in 0..(Len((CHOOSE d \in upload_data : TRUE).macros) - 1) :
                      \E s \in selected_macro_indices : \E k \in 1..Len(s) : s[k] = idx}}

SessionMacros == (CHOOSE d \in upload_data : TRUE).macros

\* C8 as stated: a save stores one macro record per selected parsed macro,
\* two selected macros of the same name and category included.
C8_NoUniqueness ==
    [][SaveStep => Len(macros') = Len(macros) + Cardinality(SelectedPositions)]_vars

NamesOf(commands) == [i \in 1..Len(commands) |-> commands[i].name]

NonEmpty(n) == n # ""

\* C10 as stated: without explicit description the description is
\* "Executes: " and the names of the first three commands joined by ", ",
\* followed by " and N more commands" when there are N > 0 further
\* commands; an explicit description is kept.
StatedDescription(macro_data) ==
    LET n == NamesOf(macro_data.commands)
        head == CASE Len(n) = 0 -> "Executes: "
                  [] Len(n) = 1 -> "Executes: " \o n[1]
                  [] Len(n) = 2 -> "Executes: " \o n[1] \o ", " \o n[2]
                  [] OTHER -> "Executes: " \o n[1] \o ", " \o n[2] \o ", " \o n[3]
    IN  IF macro_data.description # "" THEN macro_data.description
        ELSE IF Len(n) <= 3 THEN head
        ELSE head \o " and " \o ToString(Len(n) - 3) \o " more commands"

\* C10 amended: the commands that count are those with a non-empty name,
\* and a macro without description and without named command keeps the
\* empty description.
AmendedDescription(macro_data) ==
    LET n == SelectSeq(NamesOf(macro_data.commands), NonEmpty)
    IN  IF macro_data.description # "" THEN macro_data.description
        ELSE IF Len(n) = 0 THEN ""
        ELSE StatedDescription([macro_data EXCEPT !.commands = [i \in 1..Len(n) |-> Cmd(n[i])]])

\* Every macro row a save step creates has the description Describe gives
\* for a selected parsed macro of that name, category and commands.
SavedDescriptionsAre(Describe(_)) ==
    SaveStep =>
        \A r \in (Len(macros) + 1)..Len(macros') :
            \E p \in SelectedPositions :
                /\ SessionMacros[p].name = macros'[r].name
                /\ SessionMacros[p].category = macros'[r].category
                /\ SessionMacros[p].commands = macros'[r].commands
                /\ macros'[r].description = Describe(SessionMacros[p])

\* C10 as stated, for the records save_selected_macros stores.
C10_DescriptionAsStated == [][SavedDescriptionsAre(StatedDescription)]_vars

\* C10 amended: for every macro with no explicit description and at least
\* one command with a non-empty name the stored description is
\* "Executes: " with the first three non-empty command names joined by
\* ", ", followed by " and N more commands" for N > 0 further named
\* commands; without any named command it stays empty; an explicit
\* description is never replaced.
C10_Description == [][SavedDescriptionsAre(AmendedDescription)]_vars

\* C10 witness: the macro [Solo, Mute, Undo, Redo] without description
\* was saved with its synthesized description.
C10_Witness ==
    \E r \in 1..Len(macros) :
        /\ NamesOf(macros[r].commands) = <<"Solo", "Mute", "Undo", "Redo">>
        /\ macros[r].description = "Executes: Solo, Mute, Undo and 1 more commands"

\* ---------------------------------------------------------------------
\* The number of macro items in the parser's output.
RECURSIVE ItemCount(_)
ItemCount(categories_data) ==
    IF categories_data = <<>> THEN 0
    ELSE Len(Head(categories_data)[2]) + ItemCount(Tail(categories_data))

\* The number of items of the parser's output without a name.
RECURSIVE NamelessCount(_)
NamelessCount(categories_data) ==
    IF categories_data = <<>> THEN 0
    ELSE Len(SelectSeq(Head(categories_data)[2], LAMBDA m : m.name = ""))
            + NamelessCount(Tail(categories_data))

\* This step is an upload_keycommands request that stored the records of
\* parse in the session.
UploadStep(parse) ==
    /\ upload_keycommands("POST", PlainUpload, parse)
    /\ response'.kind = "redirect:select_macros_upload"

StoredMacros == (CHOOSE d \in upload_data' : TRUE).macros

\* C11 as stated: an upload yields one record per item with a name and
\* reports a skipped count equal to the number of items without a name, so
\* that records + skipped = items.
C11_SkippedCount ==
    [][\A parse \in ParseOutcomes :
          UploadStep(parse) =>
              /\ Len(StoredMacros) = ItemCount(parse.categories_data)
                                        - NamelessCount(parse.categories_data)
              /\ response'.skipped_macros = NamelessCount(parse.categories_data)
              /\ Len(StoredMacros) + response'.skipped_macros
                    = ItemCount(parse.categories_data)]_vars

\* C12 as stated: every selected in-range macro of a save is accounted
\* for once, as saved or as skipped: the reported saved count plus the
\* reported skipped count is the number of selected in-range macros.
C12_AllAccountedFor ==
    [][SaveStep =>
          response'.created_macros + response'.skipped_macros
              = Cardinality(SelectedPositions)]_vars

\* ---------------------------------------------------------------------
\* The messages upload_keycommands has for input that is not parseable
\* XML, and those it has for a file without usable macro.
InvalidXmlMessages ==
    {"File: Invalid XML format", "The uploaded file is not a valid XML file."}

NoMacrosMessages ==
    {"File: Invalid Key Commands file: No Macros or Categories section found",
     "File: Invalid Key Commands file: No macros or categories found",
     "The uploaded file doesn't contain any valid macros."}

\* An upload that is not parseable XML gets an invalid-XML message.
InvalidXmlReported ==
    \A file \in UploadFiles :
        (file.kind = "badxml" /\ upload_keycommands("POST", file, NoParse))
            => response'.message \in InvalidXmlMessages

\* A well-formed KeyCommands document without list or items, and a parse
\* without usable macro, get a no-macros message.
NoMacrosReported ==
    /\ \A file \in UploadFiles :
          (/\ file.kind = "xml"
           /\ file.root.tag = "KeyCommands"
           /\ ~PassesForm(file)
           /\ upload_keycommands("POST", file, NoParse))
              => response'.message \in NoMacrosMessages
    /\ \A parse \in ParseOutcomes :
          (/\ parse.kind = "data"
           /\ Flatten(parse.categories_data) = <<>>
           /\ upload_keycommands("POST", PlainUpload, parse))
              => response'.message \in NoMacrosMessages

\* The items an upload skipped are reported as a count.
SkippedReported ==
    \A parse \in ParseOutcomes :
        UploadStep(parse) => response'.skipped_macros = NamelessCount(parse.categories_data)

\* C13 as stated: input that is not parseable XML always gets the
\* invalid-XML message, a parseable file without usable macro always gets
\* the no-macros message, and skipped items are reported as a count; none
\* is reported with another's message or with the generic one.
C13_DistinctOutcomes ==
    [][InvalidXmlReported /\ NoMacrosReported /\ SkippedReported]_vars

\* ---------------------------------------------------------------------
\* The uploaded text is not well-formed XML, or its root element is not
\* <KeyCommands>.
Malformed(file) ==
    \/ file.kind = "badxml"
    \/ file.kind = "xml" /\ file.root.tag # "KeyCommands"

MalformedUploads == {file \in UploadFiles : Malformed(file)}

\* The parser's outcomes with at most one macro item.
ShortParses ==
    {[kind |-> k, categories_data |-> <<>>] : k \in {"invalid_xml", "error"}}
    \cup {[kind |-> "data", categories_data |-> Group(flat)] : flat \in SeqUpTo(ParsedPool, 1)}

\* C14: an upload that is not well-formed XML, or whose root tag is not
\* "KeyCommands", is rejected by the form with the error of that cause
\* whatever the parser would make of it: the upload page is rendered again
\* (no redirect to the selection step) and the session's upload_data is
\* left as it was.
C14_RejectedBeforeParsing ==
    [][\A file \in MalformedUploads, parse \in ShortParses :
          upload_keycommands("POST", file, parse) =>
              /\ upload_data' = upload_data
              /\ response'.kind = "render:upload_keycommands"
              /\ response'.message =
                    IF file.kind = "badxml"
                    THEN "File: Invalid XML format"
                    ELSE "File: Invalid Key Commands file: Root element must be 'KeyCommands'"]_vars

\* C14 witness: a document with another root tag was rejected while the
\* session held the data of an earlier upload.
C14_Witness ==
    /\ response.message = "File: Invalid Key Commands file: Root element must be 'KeyCommands'"
    /\ upload_data # {}

\* ---------------------------------------------------------------------
\* The session's upload_data, when set, holds at least one macro and only
\* macros with a name.
SessionUsable ==
    \A d \in upload_data :
        /\ d.macros # <<>>
        /\ \A i \in 1..Len(d.macros) : d.macros[i].name # ""

\* The document has no list named "Macros" or "Categories", or none that
\* holds an item.
NoMacroData(file) ==
    /\ file.kind = "xml"
    /\ file.root.tag = "KeyCommands"
    /\ \A n \in {"Macros", "Categories"} :
          \A e \in {Descendants(file.root.kids)[i] : i \in 1..Len(Descendants(file.root.kids))} :
              IsNamedList(e, n) => ~HasItems(e)

NoMacroDataUploads == {file \in UploadFiles : NoMacroData(file)}

\* The parser's outcomes without any macro that has a name.
NamelessParses ==
    {[kind |-> "data", categories_data |-> Group(flat)] :
        flat \in SeqUpTo({m \in ParsedPool : m.name = ""}, MaxParsed)}

\* C15: an upload of a document without "Macros" and "Categories" list
\* (or with lists that hold no item), and an upload whose parse yields no
\* macro with a name, fail with a no-macros message and store nothing; so
\* whenever the session holds upload_data, its macro list is non-empty and
\* all its macros have a name.
C15_NoMacroData ==
    [][/\ \A file \in NoMacroDataUploads :
             upload_keycommands("POST", file, NoParse) =>
                 /\ upload_data' = upload_data
                 /\ response'.message \in NoMacrosMessages
       /\ \A parse \in NamelessParses :
             upload_keycommands("POST", PlainUpload, parse) =>
                 /\ upload_data' = upload_data
                 /\ response'.message \in NoMacrosMessages
       /\ SessionUsable']_vars

\* C15 witness: an upload was refused for want of usable macros while the
\* session held the macros of an earlier upload.
C15_Witness ==
    /\ response.message = "The uploaded file doesn't contain any valid macros."
    /\ upload_data # {}

\* ---------------------------------------------------------------------
\* The only lists named n of the document are below the root's children.
NestedOnly(root, n) ==
    /\ FindNamed(root.kids, "list", n) = 0
    /\ FindDeep(root, "list", n) # NoElem

\* The merge took the delivered document's upload for one without
\* "Macros" list: it appended its own as the last child of the root.
MergeCreatedMacrosList ==
    /\ Len(response.root.kids) = Len(response.user_root.kids) + 1
    /\ IsMacrosList(response.root.kids[Len(response.root.kids)])

\* C16 as stated: a document whose only "Macros" (or "Categories") list is
\* nested below the root's children has no such list for the merge and for
\* the lookup of clean_file alike.
C16_DirectChildrenOnly ==
    Delivered =>
        /\ NestedOnly(response.user_root, "Macros") =>
              /\ MergeCreatedMacrosList
              /\ FindDeep(response.user_root, "list", "Macros") = NoElem
        /\ NestedOnly(response.user_root, "Categories") =>
              /\ FindNamed(response.root.kids, "list", "Categories") = 0
              /\ FindDeep(response.user_root, "list", "Categories") = NoElem

\* ---------------------------------------------------------------------
\* After a save step, download_keycommands hands the generator a record
\* with the name, key bindings and commands of the parsed macro p.
ReadBack(p) ==
    \E i \in MacrosOfFile(macros', Len(files')) :
        /\ MacroData(macros'[i]).name = p.name
        /\ MacroData(macros'[i]).key_bindings = p.key_bindings
        /\ MacroData(macros'[i]).commands = p.commands

\* C17 as stated: every parsed record that save_selected_macros saves is
\* read back by download_keycommands with the same name, the same
\* key_bindings sequence and the same commands sequence.
C17_RoundTrip ==
    [][SaveStep => \A p \in SelectedPositions : ReadBack(SessionMacros[p])]_vars

\* ---------------------------------------------------------------------
\* A standalone file was delivered by the last request.
StandaloneDelivered == response.kind = "attachment:keycommands"

\* C18 as stated: standalone generation works from the stored definition
\* snippet of every macro that has one: the record handed to the generator
\* for such a macro carries its xml_snippet (the other fields serve a
\* macro stored without snippet).
C18_SnippetPreferred ==
    StandaloneDelivered =>
        \A k \in 1..Len(response.macro_ids) :
            macros[response.macro_ids[k]].xml_snippet.present =>
                /\ "xml_snippet" \in DOMAIN response.macros_data[k]
                /\ response.macros_data[k].xml_snippet
                      = macros[response.macro_ids[k]].xml_snippet

\* ---------------------------------------------------------------------
\* This step is a request to select_macros_upload.
SelectStep ==
    /\ response'.kind \in {"redirect:upload_keycommands", "render:select_macros_upload",
                           "redirect:save_selected_macros"}
    /\ \/ select_macros_upload("GET", <<>>, {})
       \/ \E selected \in IndexLists(MaxParsed), private \in PrivateLists :
             select_macros_upload("POST", selected, private)

\* C19: a request to select_macros_upload leaves the macro records of the
\* session's upload_data as upload_keycommands stored them, in the same
\* order: the display index goes into a copy.
C19_ParsedRecordsReadOnly == [][SelectStep => upload_data' = upload_data]_vars

\* C19 witness: the selection page was rendered with indexed copies of the
\* macros while the session's macros carry no index.
C19_Witness ==
    /\ response.kind = "render:select_macros_upload"
    /\ \E entry \in {response.macros_by_category[i] : i \in 1..Len(response.macros_by_category)} :
          "index" \in DOMAIN entry[2][1]
    /\ \E d \in upload_data :
          /\ Len(d.macros) > 1
          /\ \A i \in 1..Len(d.macros) : "index" \notin DOMAIN d.macros[i]

\* ---------------------------------------------------------------------
\* The message of the merge for each kind of unusable user file.
UserFileError(kind) ==
    CASE kind = "missing" -> "Please upload your KeyCommands.xml file."
      [] kind = "badname" -> "Please upload a valid XML file."
      [] kind = "badenc" -> "Invalid file encoding."
      [] kind = "badxml" -> "Invalid XML file"

\* C20: a merge whose user file is missing, not named *.xml, not UTF-8 or
\* not well-formed XML is refused with the message of that cause and has
\* no effect: nothing is delivered, no MacroDownload row is created, no
\* download counter changes, and the stored selection stays in the
\* session.
C20_BadUserFileAborts ==
    [][response'.kind = "redirect:upload_user_file_for_download" =>
          \A file_id \in FileIds, user_file \in BadUserFiles :
             (/\ ReachesParse(file_id)
              /\ upload_user_file_for_download(file_id, "POST", user_file)) =>
                 /\ response'.message = UserFileError(user_file.kind)
                 /\ response'.root = NoElem
                 /\ db' = db
                 /\ download_selected_macros' = download_selected_macros
                 /\ download_selected_macros' # {}]_vars

\* C20 witness: a user file that is not well-formed XML was refused while
\* the selection of two macros stays stored.
C20_Witness ==
    /\ response.message = "Invalid XML file"
    /\ \E d \in download_selected_macros : Cardinality(d.macro_ids) = 2
    /\ downloads = <<>>

\* ---------------------------------------------------------------------
\* C21: every document the merge delivers is one XML declaration (version
\* 1.0, encoding utf-8) followed by the serialisation of the root element
\* of the user's document as the embedding left it.
C21_OneDeclaration ==
    Delivered =>
        /\ response.xml_content.prolog = <<XmlDeclaration>>
        /\ response.xml_content.root = response.root
        /\ SameHead(response.xml_content.root, response.user_root)

\* C21 witness: a document was delivered with a macro definition embedded
\* below its root.
C21_Witness ==
    /\ Delivered
    /\ response.xml_content.prolog # <<>>
    /\ response.xml_content.root # response.user_root
    /\ response.macro_ids # <<>>

\* ---------------------------------------------------------------------
\* The macro is marked private and its file belongs to another user than
\* the client.
PrivateToOthers(i) ==
    /\ MacroExists(i)
    /\ macros[i].is_private
    /\ files[macros[i].keycommands_file].user # user

InResponse(i) == \E k \in 1..Len(response.macro_ids) : response.macro_ids[k] = i

\* The response of macro_detail or select_macros_for_file shows or
\* delivers the macro.
PageCarries(i) ==
    /\ response.kind \in {"render:macro_detail", "render:select_macros_for_file",
                          "attachment:with_macros"}
    /\ InResponse(i) \/ i \in response.context_macros

\* The file download_keycommands delivered was generated from the macro.
StandaloneCarries(i) == StandaloneDelivered /\ InResponse(i)

\* The document the merge delivered holds the definition or the reference
\* of the macro.
MergeCarries(i) ==
    /\ Delivered
    /\ InResponse(i)
    /\ \/ DefinitionElements(macros[i]) # <<>>
       \/ FindNamed(response.user_root.kids, "list", "Categories") # 0

\* C22 as stated: no response of macro_detail, download_keycommands,
\* upload_user_file_for_download or select_macros_for_file carries the
\* content of a macro that is marked private and belongs to a file of
\* another user than the client.
C22_PrivateNeverDelivered ==
    \A i \in 1..Len(macros) :
        PrivateToOthers(i) => ~(PageCarries(i) \/ StandaloneCarries(i) \/ MergeCarries(i))

\* ---------------------------------------------------------------------
\* The row of the file and the rows of its macros are the same before and
\* after the step.
FileUntouched(file_id) ==
    /\ files'[file_id] = files[file_id]
    /\ \A i \in 1..Len(macros) :
          macros[i].keycommands_file = file_id => macros'[i] = macros[i]

\* C23: a request to keycommands_detail (with any posted action),
\* delete_keycommands_file or edit_macro by a client who is not the owner
\* of a file, logged in or not, leaves that file, its macros and their
\* privacy flags as they were.
C23_OwnerOnly ==
    [][\A file_id \in 1..Len(files) :
          (FileExists(file_id) /\ files[file_id].user # user) => FileUntouched(file_id)]_vars

\* C23 witness: u2 asked for the deletion of the file of u1 and the file
\* and its macros are still stored.
C23_Witness ==
    /\ user = "u2"
    /\ response.message = "You do not have permission to delete this file."
    /\ FileExists(1)
    /\ MacrosOfFile(macros, 1) # {}

\* ---------------------------------------------------------------------
\* The private indices kept in the session are among the selected ones.
PrivateAmongSelected ==
    \A idx \in PrivateIndicesSet :
        \E s \in selected_macro_indices : \E k \in 1..Len(s) : s[k] = idx

\* The rows of the file a save step stored.
SavedRows == MacrosOfFile(macros', Len(files'))

\* The parsed macro at position p of the session was stored by this save
\* step with the visibility private.
SavedAs(p, private) ==
    \E i \in SavedRows :
        /\ macros'[i].name = SessionMacros[p].name
        /\ macros'[i].category = SessionMacros[p].category
        /\ macros'[i].is_private = private

\* C24 as stated: the private indices of the session are always a subset
\* of the selected indices; a save stores every selected macro, as private
\* when its index is among the private indices and as public otherwise;
\* and it stores no macro whose index was not selected.
C24_PrivateIffMarked ==
    [][/\ PrivateAmongSelected'
       /\ SaveStep =>
             /\ \A p \in SelectedPositions : SavedAs(p, (p - 1) \in PrivateIndicesSet)
             /\ \A i \in SavedRows :
                   \E p \in SelectedPositions :
                      /\ macros'[i].name = SessionMacros[p].name
                      /\ macros'[i].category = SessionMacros[p].category]_vars

\* ------------------------------------------- the workflow of one upload
\* A file that passes the form is parsed, macros are selected, and the
\* save is requested, any number of times and in any order.
NextSave ==
    \/ \E parse \in ParseOutcomes : upload_keycommands("POST", PlainUpload, parse)
    \/ \E selected \in IndexLists(MaxParsed), private \in PrivateLists :
          select_macros_upload("POST", selected, private)
    \/ save_selected_macros

SpecSave == Init /\ [][NextSave]_vars

\* ---------------------------------------------------------------------
\* The session holds the parsed data of an upload and a selection that is
\* not empty.
SessionReady ==
    /\ upload_data # {}
    /\ \E s \in selected_macro_indices : s # <<>>

\* The step stores a file or writes a macro row.
WritesUpload == Len(files') # Len(files) \/ macros' # macros

\* C25: files and macros are written only by a step taken with the parsed
\* upload data and a non-empty selection in the session; a successful save
\* removes the three session entries, and a save requested again after it
\* stores nothing; a save that fails as a whole leaves no file and no
\* macro of it in the database.
C25_OrderedOnce ==
    [][/\ WritesUpload => SessionReady
       /\ SaveStep =>
             upload_data' = {} /\ selected_macro_indices' = {} /\ private_macro_indices' = {}
       /\ (response.message = "Successfully saved" /\ save_selected_macros) =>
             /\ response'.message = "Session expired."
             /\ files' = files /\ macros' = macros
       /\ (response'.message = "Error saving macros" /\ save_selected_macros) =>
             files' = files /\ macros' = macros]_vars

\* C25 witness: a save was requested again after the file was stored, and
\* was refused for want of session data.
C25_Witness ==
    /\ Len(files) = 1
    /\ macros # <<>>
    /\ response.message = "Session expired."

\* ---------------------------------------------------------------------
\* ------------------------------------ selection and merge: light inputs
\* The two views of the merge workflow with every selection a form can
\* post and, as user files, the unusable ones and one plain document.
NextSelection ==
    \/ \E file_id \in FileIds, selected \in SUBSET PostableIds :
          download_selected_macros_view(file_id, "POST", selected)
    \/ \E file_id \in FileIds :
          download_selected_macros_view(file_id, "GET", {})
    \/ \E file_id \in FileIds :
          upload_user_file_for_download(file_id, "GET", NoUserFile)
    \/ \E file_id \in FileIds, user_file \in BadUserFiles \cup {PlainUpload} :
          upload_user_file_for_download(file_id, "POST", user_file)

SpecSelection == InitMerge /\ [][NextSelection]_vars

\* The step is a request of upload_user_file_for_download that got past
\* the test of the stored selection: the other exits of the view are the
\* 404 and the redirect to the selection step.
PastSelectionTest ==
    \/ response'.kind \in {"render:upload_user_file_for_download", "attachment"}
    \/ response'.kind = "redirect:upload_user_file_for_download" /\ response'.message # ""

\* The step is a delivery requested for file_id: the user file posted is
\* the one the response echoes.
DeliversFor(file_id) ==
    upload_user_file_for_download(file_id, "POST",
                                  [kind |-> "xml", root |-> response'.user_root])

\* C26: upload_user_file_for_download goes past its first test only with
\* a selection in the session, and it embeds only for the file the
\* selection was stored for and only macros of that file that the
\* selection lists; a delivery removes the selection, and no request that
\* follows it gets past the test or changes the database.
C26_SelectionBoundUsedOnce ==
    [][/\ PastSelectionTest => download_selected_macros # {}
       /\ response'.kind = "attachment" =>
             /\ \A d \in download_selected_macros :
                   /\ \A file_id \in FileIds \ {d.file_id} : ~DeliversFor(file_id)
                   /\ \A k \in 1..Len(response'.macro_ids) :
                         /\ response'.macro_ids[k] \in d.macro_ids
                         /\ macros[response'.macro_ids[k]].keycommands_file = d.file_id
             /\ download_selected_macros' = {}
       /\ response.kind = "attachment" =>
             /\ ~PastSelectionTest
             /\ UNCHANGED db]_vars

\* C26 witness: macros were delivered and the request that followed was
\* sent back to the selection step.
C26_Witness ==
    /\ downloads # <<>>
    /\ download_selected_macros = {}
    /\ response.message = "Please select macros first."

\* ---------------------------------------------------------------------
\* TRUE when a root-level "Macros" list of root has an item named name.
HasDefinition(root, name) ==
    \E l \in Where(root, IsMacrosList) :
    \E r \in 1..Len(root.kids[l].kids) :
        NameOf(root.kids[l].kids[r]) = name

\* The step delivers a merge, writes one download row for each merged
\* macro and raises the counter of each by one and of no other macro.
AccountsEachOnce ==
    LET ids == response'.macro_ids
    IN  /\ downloads' = downloads \o [k \in 1..Len(ids) |-> [macro |-> ids[k], user |-> user]]
        /\ \A i, j \in 1..Len(ids) : ids[i] = ids[j] => i = j
        /\ \A d \in download_selected_macros :
              {ids[k] : k \in 1..Len(ids)} = SelectedMacroIds(d.file_id, d.macro_ids)
        /\ Len(macros') = Len(macros)
        /\ \A i \in 1..Len(macros) :
              macros'[i] = IF \E k \in 1..Len(ids) : ids[k] = i
                           THEN [macros[i] EXCEPT !.download_count = @ + 1]
                           ELSE macros[i]

\* C27 as stated: a delivered merge writes exactly one download row and
\* adds exactly one to the counter for each selected macro, and each
\* macro with a download row has its definition in the delivered
\* document.
C27_AccountingMatchesDelivery ==
    [][response'.kind = "attachment" =>
          /\ AccountsEachOnce
          /\ \A k \in 1..Len(response'.macro_ids) :
                HasDefinition(response'.root, macros[response'.macro_ids[k]].name)]_vars

\* ---------------------------------------------------------------------
\* After the step every macro of the file has the visibility of the file.
MacrosFollowFile(file_id) ==
    \A i \in 1..Len(macros') :
        macros'[i].keycommands_file = file_id =>
            macros'[i].is_private = files'[file_id].is_private

\* The step of a toggle_macro_visibility post: the named macro, when it
\* is one of the file, has its visibility flipped, and nothing else in
\* the database changes.
TogglesOne(file_id, macro_id) ==
    /\ macros' = IF MacroExists(macro_id) /\ macros[macro_id].keycommands_file = file_id
                 THEN [macros EXCEPT ![macro_id].is_private = ~@]
                 ELSE macros
    /\ UNCHANGED <<files, downloads>>

\* C28 as stated: the owner's edit_file with a posted name that is not
\* empty leaves every macro of the file with the visibility of the file,
\* an empty name changes nothing, and toggle_macro_visibility flips the
\* one named macro of the file only.
C28_EditAndToggle_AsStated ==
    [][\A file_id \in 1..Len(files) :
          (FileExists(file_id) /\ IsOwner(file_id)) =>
             /\ \A post \in EditPosts :
                   keycommands_detail(file_id, "POST", post) =>
                      IF post.name # "" THEN MacrosFollowFile(file_id)
                      ELSE UNCHANGED db
             /\ \A post \in TogglePosts :
                   keycommands_detail(file_id, "POST", post) =>
                      TogglesOne(file_id, post.macro_id)]_vars

\* C28, amended: the owner's edit_file with a posted name that is not
\* empty once the blanks around it are removed leaves every macro of the
\* file with the visibility of the file, whatever the macros had before;
\* a name that is empty or all blanks changes nothing; and
\* toggle_macro_visibility flips the one named macro of the file only.
C28_EditAndToggle ==
    [][\A file_id \in 1..Len(files) :
          (FileExists(file_id) /\ IsOwner(file_id)) =>
             /\ \A post \in EditPosts :
                   keycommands_detail(file_id, "POST", post) =>
                      IF Strip(post.name) # ""
                      THEN /\ MacrosFollowFile(file_id)
                           /\ files'[file_id].is_private = post.is_private
                      ELSE UNCHANGED db
             /\ \A post \in TogglePosts :
                   keycommands_detail(file_id, "POST", post) =>
                      TogglesOne(file_id, post.macro_id)]_vars

\* C28 witness: the owner made the file private and its macros, some of
\* them public before in some behaviour, are all private.
C28_Witness ==
    /\ user = "u1"
    /\ response.message = "File details updated successfully!"
    /\ files[1].is_private
    /\ files[1].name = "Keys"
    /\ MacrosOfFile(macros, 1) # {}
    /\ \A i \in MacrosOfFile(macros, 1) : macros[i].is_private

\* ======================================================== accounts
\* What the requests of the accounts app leave alone.
macros_app == <<user, total_uploads, db, upload_session, download_selected_macros>>

max_retries == 3

\* TRUE when the text sub occurs in the text s.
Contains(s, sub) ==
    \E i \in 1..(Len(s) - Len(sub) + 1) : SubSeq(s, i, i + Len(sub) - 1) = sub

\* Variant of ShouldRetry: any OperationalError is retried.
ShouldRetryAnyError(e, attempt) == attempt < max_retries - 1

\* 'database is locked' in str(e).lower() and attempt < max_retries - 1,
\* for the lower-case messages of SQLite.
ShouldRetry(e, attempt) ==
    Contains(e, "database is locked") /\ attempt < max_retries - 1

\* EmailVerification.generate_token(): a token no row holds yet.
generate_token == last_token + 1

\* The row of EmailVerification.objects.create(user=user, token=token):
\* not verified, not expired.
NewVerification(u, token) == [user |-> u, token |-> token, verified |-> FALSE, expired |-> FALSE]

\* user.delete(): the row goes and with it, by cascade, its verification.
DeleteUser(u) ==
    /\ users' = users \ {u}
    /\ verifications' = {v \in verifications : v.user # u}

\* The view up to the retry loop. form: [valid, email] is
\* CustomUserCreationForm(request.POST) after is_valid().
signup_email(method, form) ==
    /\ signup.pc = "idle"
    /\ UNCHANGED <<macros_app, users, verifications, outbox, last_token>>
    /\ IF method # "POST"
       THEN /\ response' = Response("render:signup_email", "")
            /\ UNCHANGED signup
       ELSE IF ~form.valid
       THEN /\ response' = Response("render:signup_email", "Please correct the errors below.")
            /\ UNCHANGED signup
       ELSE /\ last_token < MaxTokens
            /\ signup' = [NoSignup EXCEPT !.pc = "create", !.email = form.email]
            /\ UNCHANGED response

\* One pass of the retry loop. outcome is what the atomic block does:
\* "created" when it is left normally (the username, which is the email,
\* is new), "IntegrityError" for a username that exists (no handler: the
\* request ends with a server error), or the text of an OperationalError.
\* An exception rolls the block back.
create_account(outcome) ==
    /\ signup.pc = "create"
    /\ UNCHANGED <<macros_app, outbox>>
    /\ IF outcome = "created"
       THEN /\ signup.email \notin users
            /\ users' = users \cup {signup.email}
            /\ last_token' = generate_token
            /\ verifications' = verifications \cup {NewVerification(signup.email, generate_token)}
            /\ signup' = [signup EXCEPT !.pc = "send_mail", !.user = signup.email,
                                        !.token = generate_token]
            /\ UNCHANGED response
       ELSE IF outcome = "IntegrityError"
       THEN /\ signup.email \in users
            /\ response' = Response("500", "")
            /\ signup' = NoSignup
            /\ UNCHANGED <<users, verifications, last_token>>
       ELSE /\ UNCHANGED <<users, verifications, last_token>>
            /\ IF ShouldRetry(outcome, signup.attempt)
               THEN /\ signup' = [signup EXCEPT !.attempt = @ + 1, !.e = outcome]
                    /\ UNCHANGED response
               ELSE /\ response' = Response("render:signup_email",
                           "Database is temporarily busy. Please try again in a moment.")
                    /\ signup' = NoSignup

\* The view after the loop: send_mail, and user.delete() when it raises.
send_verification_email(sent) ==
    /\ signup.pc = "send_mail"
    /\ UNCHANGED <<macros_app, last_token>>
    /\ signup' = NoSignup
    /\ IF sent
       THEN /\ outbox' = outbox \cup {[to |-> signup.email, token |-> signup.token]}
            /\ response' = Response("redirect:verification_sent", "Account created!")
            /\ UNCHANGED <<users, verifications>>
       ELSE /\ DeleteUser(signup.user)
            /\ response' = Response("render:signup_email",
                                    "Failed to send verification email.")
            /\ UNCHANGED outbox

\* verification.is_expired()
is_expired(verification) == verification.expired

\* verification.verify(): the row is marked verified, which activates
\* the account.
verify(verification) == [verification EXCEPT !.verified = TRUE]

\* Variant of VerifyBranch: the expiry is tested before the verified flag.
VerifyBranchExpiryFirst(verification) ==
    IF is_expired(verification) THEN "expired"
    ELSE IF verification.verified THEN "verified"
    ELSE "verify"

\* The branch verify_email takes for the row found.
VerifyBranch(verification) ==
    IF verification.verified THEN "verified"
    ELSE IF is_expired(verification) THEN "expired"
    ELSE "verify"

verify_email(token) ==
    /\ UNCHANGED <<macros_app, outbox, last_token, signup>>
    /\ IF ~\E v \in verifications : v.token = token
       THEN /\ response' = Response("redirect:signup", "Invalid verification link.")
            /\ UNCHANGED <<users, verifications>>
       ELSE LET verification == CHOOSE v \in verifications : v.token = token
            IN  CASE VerifyBranch(verification) = "verified" ->
                        /\ response' = Response("redirect:login",
                                           "Your email has already been verified. You can log in.")
                        /\ UNCHANGED <<users, verifications>>
                  [] VerifyBranch(verification) = "expired" ->
                        /\ users' = users \ {verification.user}
                        /\ verifications' = {v \in verifications :
                                                v # verification /\ v.user # verification.user}
                        /\ response' = Response("redirect:signup",
                                                "Verification link has expired.")
                  [] OTHER ->
                        /\ verifications' = (verifications \ {verification})
                                                \cup {verify(verification)}
                        /\ response' = Response("redirect:login",
                                                "Email verified successfully!")
                        /\ UNCHANGED users

\* Time passes: the expiry time of a row is reached.
expire(token) ==
    /\ \E v \in verifications :
          /\ v.token = token
          /\ ~v.expired
          /\ verifications' = (verifications \ {v}) \cup {[v EXCEPT !.expired = TRUE]}
    /\ UNCHANGED <<macros_app, users, outbox, last_token, signup, response>>

\* ------------------------------------------------------ accounts: inputs
Emails == {"a@x.org", "b@x.org"}

SignupForms == {[valid |-> FALSE, email |-> ""]} \cup {[valid |-> TRUE, email |-> e] : e \in Emails}

\* Texts of the OperationalError SQLite raises.
OperationalErrors == {"database is locked", "database table is locked", "disk I/O error"}

\* Tokens a link can carry: every token generated and one that was not.
Tokens == 1..(last_token + 1)

CreateStep == \E outcome \in {"created", "IntegrityError"} \cup OperationalErrors :
                 create_account(outcome)

SendStep == \E sent \in BOOLEAN : send_verification_email(sent)

NextAccounts ==
    \/ signup_email("GET", [valid |-> FALSE, email |-> ""])
    \/ \E form \in SignupForms : signup_email("POST", form)
    \/ CreateStep
    \/ SendStep
    \/ \E token \in Tokens : verify_email(token)
    \/ \E token \in Tokens : expire(token)

\* A request that is being handled goes on to its next statement.
SpecAccounts == Init /\ [][NextAccounts]_vars /\ WF_vars(CreateStep) /\ WF_vars(SendStep)

\* ---------------------------------------------------------------------
\* Every account stored got its verification mail, or signup_email is
\* about to send it.
MailedOrPending ==
    \A u \in users :
        \/ signup.pc = "send_mail" /\ signup.user = u
        \/ \E m \in outbox, v \in verifications :
              m.to = u /\ v.user = u /\ v.token = m.token

\* The step of signup_email goes round the retry loop: after a "database
\* is locked" error, to an attempt that is at most the third, with
\* nothing stored.
RetriesAfterLockOnly ==
    (signup.pc = "create" /\ signup'.pc = "create" /\ signup' # signup) =>
        /\ signup'.attempt = signup.attempt + 1
        /\ signup'.attempt < max_retries
        /\ Contains(signup'.e, "database is locked")
        /\ UNCHANGED <<users, verifications>>

\* A user and a verification are created by the same step, one of each,
\* and the verification is the user's.
CreatedTogether ==
    LET new_users == users' \ users
        new_verifications ==
            {v \in verifications' : \A w \in verifications : w.token # v.token}
    IN  (new_users # {} \/ new_verifications # {}) =>
            /\ signup.pc = "create" /\ signup'.pc = "send_mail"
            /\ Cardinality(new_users) = 1
            /\ Cardinality(new_verifications) = 1
            /\ \A v \in new_verifications : v.user \in new_users /\ v.token = signup'.token

\* The loop is left with an error: nothing was created.
ErrorCreatesNothing ==
    (signup.pc = "create" /\ signup'.pc = "idle") =>
        /\ response'.kind \in {"500", "render:signup_email"}
        /\ UNCHANGED <<users, verifications, outbox>>

\* The mail could not be sent: the user created is not stored any more.
MailFailureDeletesUser ==
    (signup.pc = "send_mail" /\ signup'.pc = "idle"
        /\ response'.message = "Failed to send verification email.") =>
            signup.user \notin users'

\* C29: signup_email makes at most three attempts and comes to an end; it
\* goes round the loop only after a "database is locked" error and only
\* to a second or third attempt; a user and a verification token are
\* created together, one of each, or the request ends with an error and
\* nothing is created; when the mail cannot be sent the user is deleted,
\* so that every account stored had its mail sent.
C29_SignupAttempts ==
    /\ [](signup.attempt < max_retries /\ MailedOrPending)
    /\ [][/\ RetriesAfterLockOnly
          /\ CreatedTogether
          /\ ErrorCreatesNothing
          /\ MailFailureDeletesUser]_vars
    /\ (signup.pc # "idle") ~> (signup.pc = "idle")

\* C29 witness: the account was created at the third attempt, after two
\* lock errors.
C29_Witness ==
    /\ signup.pc = "send_mail"
    /\ signup.attempt = max_retries - 1
    /\ Contains(signup.e, "database is locked")
    /\ signup.user \in users
    /\ \E v \in verifications : v.user = signup.user /\ v.token = signup.token

\* ---------------------------------------------------------------------
\* The step marks a verification as verified.
Activates(v) == ~v.verified /\ verify(v) \in verifications' /\ verify(v) \notin verifications

\* C30: a request of verify_email with a token no verification holds
\* changes nothing; with the token of a verified verification it changes
\* nothing, expired or not; with that of an unverified, expired one it
\* deletes the verification and its user and activates nothing; and a
\* verification is marked verified only by a request with its token while
\* it is neither verified nor expired.
C30_VerifyEmail ==
    [][/\ \A token \in Tokens :
             verify_email(token) =>
                LET found == {v \in verifications : v.token = token}
                IN  /\ found = {} => UNCHANGED <<users, verifications>>
                    /\ \A v \in found :
                          /\ v.verified => UNCHANGED <<users, verifications>>
                          /\ (~v.verified /\ v.expired) =>
                                /\ v.user \notin users'
                                /\ \A w \in verifications' : w.token # token
                                /\ \A w \in verifications : ~Activates(w)
                          /\ (~v.verified /\ ~v.expired) => Activates(v)
       /\ \A v \in verifications :
             Activates(v) => ~v.expired /\ verify_email(v.token)]_vars

\* C30 witness: the link of a verified account was followed after its
\* expiry time, and the account and its verification are still stored.
C30_Witness ==
    /\ response.message = "Your email has already been verified. You can log in."
    /\ \E v \in verifications : v.verified /\ v.expired /\ v.user \in users

====
